---- MODULE Spec2Model ----
(***************************************************************************)
(* Model of the UNO game engine of rudalkunwar/uno-multiplayer:            *)
(* src/services/gameService.ts (GameService), src/services/StateManager.ts *)
(* (GameStateManager), src/types/game.ts (cards, deck, shuffle).           *)
(*                                                                         *)
(* One GameService snapshot is held in the variable state; every public    *)
(* operation is a pure operator from a snapshot and its arguments to a     *)
(* result [ok, state], where ok = FALSE stands for a thrown Error and the  *)
(* snapshot then stays the one the operation was called on.                *)
(*                                                                         *)
(* The deck is built by createNewDeck as in the source, over a reduced     *)
(* palette (Colors, NonZeroValues, DeckCopies): one zero per colour,        *)
(* DeckCopies cards of every other coloured face and of each wild face.    *)
(* Math.random() is sampled from k / RandDenom, k in 0..RandDenom-1.       *)
(***************************************************************************)
EXTENDS Integers, Sequences, FiniteSets, TLC

VARIABLES
    state,   \* the GameState held by the room's current GameService
    conns,   \* connections opened so far; their ids are 1..conns
    last,    \* the most recent call: operation, arguments and outcome
    steps,   \* successful operations since the game left the waiting status
    games,   \* setupSocketServer: the Map of rooms, its entries in insertion order
    frames,  \* setupSocketServer: for every socket, the handler it is running
    emitted, \* setupSocketServer: the gameStateUpdated events sent by the last step
    lobby,   \* SocketServer: its sockets, its Map of GameRooms, the room codes in use
    now,     \* SocketServer: the clock
    event,   \* SocketServer: the handler or timer callback that ran last
    emitter, \* GameEventEmitter: events, listeners and the outcome of the last emit
    shuffling \* shuffleArray: the argument, the copy being shuffled, the loop index

\* the variables of one room, of the server that holds several, of the server
\* with the room sweep, of an event emitter and of a shuffle
roomVars == <<state, conns, last, steps>>
serverVars == <<games, frames, emitted>>
lobbyVars == <<lobby, now, event>>

vars == <<state, conns, last, steps, games, frames, emitted, lobby, now, event,
          emitter, shuffling>>

(* ------------------------------ bounds -------------------------------- *)

\* settings.maxPlayers handed to createGame (default 10 in the source)
MaxPlayers == 3

\* cards dealt to each player by startGame (7 in the source)
DealSize == 3

\* copies of each face other than the zeros (2 per coloured face and 4 per wild
\* face in the source)
DeckCopies == 1

\* number of outcomes sampled from Math.random()
RandDenom == 2

\* successful operations explored after the first startGame
MaxSteps == 3

\* the same in the two-player games of Duel, which are followed further
MaxDuelSteps == 6

\* number of outcomes sampled from Math.random() for the shuffle of Deal
FineDenom == 5

\* successful operations explored after the first startGame in Deal
MaxDealSteps == 1

\* the same in Drought, where cards are only drawn
MaxDrawSteps == 4

\* the same in the two-player games of Walkout
MaxWalkSteps == 6

\* sockets connected to the server that holds several rooms
MaxSockets == 3

\* settings.maxPlayers of the rooms of SocketServer
LobbySeats == 2

\* cards of GameService.generateDeck (108 in the source) and cards dealt to each
\* player by GameService.initializeGame (7 in the source)
LobbyDeck == 5
LobbyHand == 1

\* the clock of SocketServer counts sweep intervals: the interval of the sweep
\* (5 minutes in the source), the idle time after which a room that is not
\* started is closed (30 minutes), the life of a room (24 hours)
ROOM_CLEANUP_INTERVAL == 1
RoomIdleLimit == 1
ROOM_EXPIRY_TIME == 2

\* the clock stops here
MaxTime == 3

\* messages of sockets served by SocketServer
MaxMessages == 6

\* listeners registered on a GameEventEmitter and events emitted by it
MaxListeners == 3
MaxEvents == 3

\* entries kept in actionHistory (20 in the source)
ActionHistoryLimit == 2

\* length of the arrays handed to shuffleArray on its own, and number of
\* different elements in them
MaxShuffleLen == 4
MaxShuffleFaces == 3

(* ------------------------------ cards --------------------------------- *)

Colors == <<"red", "blue">>

NonZeroValues == <<7>>

ActionTypes == <<"skip", "reverse", "draw2">>

NoColor == "none"

NoCard == -1

NoPlayer == 0

NoValue == -1

\* getNextPlayerIndex does not return
Diverges == -2

RECURSIVE Flatten(_)
Flatten(ss) == IF ss = <<>> THEN <<>> ELSE Head(ss) \o Flatten(Tail(ss))

Repeat(x, n) == [i \in 1..n |-> x]

ColorFaces(color) ==
    <<[color |-> color, type |-> "number", value |-> 0, points |-> 0]>>
    \o Flatten([k \in 1..Len(NonZeroValues) |->
            Repeat([color |-> color, type |-> "number",
                    value |-> NonZeroValues[k], points |-> NonZeroValues[k]], DeckCopies)])
    \o Flatten([k \in 1..Len(ActionTypes) |->
            Repeat([color |-> color, type |-> ActionTypes[k],
                    value |-> NoValue, points |-> 20], DeckCopies)])

WildFaces ==
    Flatten([i \in 1..DeckCopies |->
        << [color |-> "black", type |-> "wild", value |-> NoValue, points |-> 50],
           [color |-> "black", type |-> "wild4", value |-> NoValue, points |-> 50] >>])

\* createNewDeck: the faces in construction order; the card at position i has id i-1
DeckFaces == Flatten([c \in 1..Len(Colors) |-> ColorFaces(Colors[c])]) \o WildFaces

DeckSize == Len(DeckFaces)

CardIds == 0..(DeckSize - 1)

createNewDeck == [i \in 1..DeckSize |-> i - 1]

Card(id) == DeckFaces[id + 1]

isWildCard(id) == Card(id).type = "wild" \/ Card(id).type = "wild4"

isDrawCard(id) == Card(id).type = "draw2" \/ Card(id).type = "wild4"

\* canPlayOnTop gone wrong: any number card goes on any number card
canPlayOnTop_anyNumber(cardToPlay, topCard, currentColor, settings) ==
    IF isWildCard(cardToPlay)
    THEN ~(settings.noBluffing /\ Card(cardToPlay).type = "wild4")
    ELSE \/ Card(cardToPlay).color = currentColor
         \/ /\ Card(cardToPlay).type = "number"
            /\ Card(topCard).type = "number"
         \/ /\ Card(cardToPlay).type # "number"
            /\ Card(cardToPlay).type = Card(topCard).type

canPlayOnTop(cardToPlay, topCard, currentColor, settings) ==
    IF isWildCard(cardToPlay)
    THEN ~(settings.noBluffing /\ Card(cardToPlay).type = "wild4")
    ELSE \/ Card(cardToPlay).color = currentColor
         \/ /\ Card(cardToPlay).type = "number"
            /\ Card(topCard).type = "number"
            /\ Card(cardToPlay).value = Card(topCard).value
         \/ /\ Card(cardToPlay).type # "number"
            /\ Card(cardToPlay).type = Card(topCard).type

(* ----------------------------- shuffle -------------------------------- *)

\* an exchange that writes one of the two positions only
Swap_overwrite(arr, a, b) == [arr EXCEPT ![a] = arr[b]]

\* [newArray[i], newArray[j]] = [newArray[j], newArray[i]]
Swap(arr, a, b) == [arr EXCEPT ![a] = arr[b], ![b] = arr[a]]

\* the loop of shuffleArray from index i (0-based) down to 1; rnd is the
\* Math.random() outcome num / den, j = floor(num / den * (i + 1))
RECURSIVE ShuffleFrom(_, _, _)
ShuffleFrom(arr, i, rnd) ==
    IF i <= 0 THEN arr
    ELSE LET j == (rnd.num * (i + 1)) \div rnd.den
         IN ShuffleFrom(Swap(arr, i + 1, j + 1), i - 1, rnd)

shuffleArray(array, rnd) == ShuffleFrom(array, Len(array) - 1, rnd)

\* the outcomes k / den of Math.random(), k in 0..den-1
Sample(den) == {[num |-> k, den |-> den] : k \in 0..(den - 1)}

RandomOutcomes == Sample(RandDenom)

\* the outcome 0
FirstOutcome == [num |-> 0, den |-> RandDenom]

(* --------------------------- sequences -------------------------------- *)

Take(s, n) == SubSeq(s, 1, IF n < Len(s) THEN n ELSE Len(s))

Drop(s, n) == SubSeq(s, (IF n < Len(s) THEN n ELSE Len(s)) + 1, Len(s))

Range(s) == {s[i] : i \in 1..Len(s)}

RECURSIVE SumPoints(_)
SumPoints(cards) ==
    IF cards = <<>> THEN 0 ELSE Card(Head(cards)).points + SumPoints(Tail(cards))

RECURSIVE Without(_, _)
Without(cards, cardId) ==
    IF cards = <<>> THEN <<>>
    ELSE IF Head(cards) = cardId THEN Without(Tail(cards), cardId)
    ELSE <<Head(cards)>> \o Without(Tail(cards), cardId)

\* Array.findIndex on players by id: 0-based index, -1 when absent
findIndex(players, playerId) ==
    IF \E i \in 1..Len(players) : players[i].id = playerId
    THEN (CHOOSE i \in 1..Len(players) :
            /\ players[i].id = playerId
            /\ \A j \in 1..(i - 1) : players[j].id # playerId) - 1
    ELSE -1

\* players[index] with the source's 0-based index
At(players, index) == players[index + 1]

(* ------------------------- GameStateManager --------------------------- *)

validateState(st) ==
    /\ ~(st.gameStatus = "playing"
         /\ Cardinality({i \in 1..Len(st.players) : st.players[i].isCurrentTurn}) # 1)
    /\ ~(Len(st.players) > 0 /\ ~(\E i \in 1..Len(st.players) : st.players[i].isHost))

\* an operation's outcome: ok = it returned a GameService holding state; ~ok = it
\* threw (hang = FALSE) or never returned (hang = TRUE), state being the snapshot
\* it was called on
Ok(st) == [ok |-> TRUE, hang |-> FALSE, state |-> st]

Fail(st) == [ok |-> FALSE, hang |-> FALSE, state |-> st]

Hang(st) == [ok |-> FALSE, hang |-> TRUE, state |-> st]

\* new GameService(newState), called from an operation on snapshot st
NewGameService(st, newState) == IF validateState(newState) THEN Ok(newState) ELSE Fail(st)

(* --------------------------- GameService ------------------------------ *)

NoAction == [type |-> "none", player |-> NoPlayer, card |-> NoCard]

NoChallenge == [challenger |-> NoPlayer, challenged |-> NoPlayer, isValid |-> FALSE]

\* the history gone wrong: nothing is dropped from its end
pushAction_unbounded(action, actionHistory) == <<action>> \o actionHistory

\* [action, ...state.actionHistory].slice(0, 20)
pushAction(action, actionHistory) ==
    Take(<<action>> \o actionHistory, ActionHistoryLimit)

getDefaultGameSettings ==
    [maxPlayers |-> MaxPlayers, minPlayers |-> 2, jumpIn |-> FALSE,
     drawUntilMatch |-> FALSE, allowChallenges |-> TRUE, sevenZero |-> FALSE,
     noBluffing |-> FALSE, passAfterDraw |-> TRUE, drawCardLimit |-> 3]

NewPlayer(playerId, isHost) ==
    [id |-> playerId, cards |-> <<>>, isHost |-> isHost, isCurrentTurn |-> FALSE,
     isConnected |-> TRUE, isReady |-> FALSE, score |-> 0, roundScore |-> 0]

createGame(hostId, settings) ==
    [players |-> <<NewPlayer(hostId, TRUE)>>,
     currentPlayerIndex |-> 0,
     direction |-> 1,
     deck |-> <<>>,
     discardPile |-> <<>>,
     currentColor |-> "red",
     lastPlayedCard |-> NoCard,
     gameStatus |-> "waiting",
     winner |-> NoPlayer,
     settings |-> settings,
     lastAction |-> NoAction,
     actionHistory |-> <<>>,
     challengePending |-> NoChallenge,
     pendingCardsToDraw |-> 0]

\* the while loop of getNextPlayerIndex, entered with nextIndex; fuel bounds the
\* unrolling: the indices visited repeat with period playerCount, so a loop that
\* has not stopped after playerCount rounds never stops
RECURSIVE getNextPlayerIndex_loop(_, _, _, _)
getNextPlayerIndex_loop(st, currentIndex, nextIndex, fuel) ==
    LET playerCount == Len(st.players)
        stepped == (nextIndex + st.direction + playerCount) % playerCount
    IN IF At(st.players, nextIndex).isConnected THEN nextIndex
       ELSE IF stepped = currentIndex THEN stepped
       ELSE IF fuel = 0 THEN Diverges
       ELSE getNextPlayerIndex_loop(st, currentIndex, stepped, fuel - 1)

getNextPlayerIndex_from(st, startIndex) ==
    LET playerCount == Len(st.players)
    IN getNextPlayerIndex_loop(st, startIndex,
          (startIndex + st.direction + playerCount) % playerCount, playerCount)

getNextPlayerIndex(st) == getNextPlayerIndex_from(st, st.currentPlayerIndex)

\* nextTurn gone wrong: the turn flags move, currentPlayerIndex stays
nextTurnState_flagsOnly(st) ==
    LET nextPlayerIndex == getNextPlayerIndex(st)
    IN [st EXCEPT
          !.players = [i \in 1..Len(st.players) |->
                          [st.players[i] EXCEPT !.isCurrentTurn = (i - 1 = nextPlayerIndex)]]]

nextTurnState(st) ==
    LET nextPlayerIndex == getNextPlayerIndex(st)
    IN [st EXCEPT
          !.players = [i \in 1..Len(st.players) |->
                          [st.players[i] EXCEPT !.isCurrentTurn = (i - 1 = nextPlayerIndex)]],
          !.currentPlayerIndex = nextPlayerIndex]

\* GameService.nextTurn on a snapshot cur, while serving an operation called on st
nextTurn(st, cur) ==
    IF getNextPlayerIndex(cur) = Diverges THEN Hang(st)
    ELSE NewGameService(st, nextTurnState(cur))

\* new GameService(newState).nextTurn()
thenNextTurn(st, newState) ==
    IF validateState(newState) THEN nextTurn(st, newState) ELSE Fail(st)

\* addPlayer gone wrong: the room is never full
addPlayer_noLimit(st, playerId) ==
    IF st.gameStatus # "waiting" THEN Fail(st)
    ELSE IF \E i \in 1..Len(st.players) : st.players[i].id = playerId THEN Fail(st)
    ELSE NewGameService(st,
            [st EXCEPT !.players = Append(st.players, NewPlayer(playerId, FALSE))])

addPlayer(st, playerId) ==
    IF st.gameStatus # "waiting" THEN Fail(st)
    ELSE IF Len(st.players) >= st.settings.maxPlayers THEN Fail(st)
    ELSE IF \E i \in 1..Len(st.players) : st.players[i].id = playerId THEN Fail(st)
    ELSE NewGameService(st,
            [st EXCEPT !.players = Append(st.players, NewPlayer(playerId, FALSE))])

\* removePlayer gone wrong: when the host leaves, the last remaining player is made
\* host, not the first
removePlayer_lastHost(st, playerId) ==
    LET playerIndex == findIndex(st.players, playerId)
    IN IF playerIndex = -1 THEN Fail(st)
       ELSE IF st.gameStatus = "playing"
       THEN LET newState ==
                  [st EXCEPT !.players = [i \in 1..Len(st.players) |->
                      IF st.players[i].id = playerId
                      THEN [st.players[i] EXCEPT !.isConnected = FALSE]
                      ELSE st.players[i]]]
            IN IF At(st.players, playerIndex).isCurrentTurn
               THEN thenNextTurn(st, newState)
               ELSE NewGameService(st, newState)
       ELSE LET isHost == At(st.players, playerIndex).isHost
                kept == SelectSeq(st.players, LAMBDA p : p.id # playerId)
                newPlayers ==
                    IF isHost /\ Len(kept) > 0
                    THEN [i \in 1..Len(kept) |->
                            IF i = Len(kept) THEN [kept[i] EXCEPT !.isHost = TRUE]
                            ELSE kept[i]]
                    ELSE kept
            IN NewGameService(st, [st EXCEPT !.players = newPlayers])

removePlayer(st, playerId) ==
    LET playerIndex == findIndex(st.players, playerId)
    IN IF playerIndex = -1 THEN Fail(st)
       ELSE IF st.gameStatus = "playing"
       THEN LET newState ==
                  [st EXCEPT !.players = [i \in 1..Len(st.players) |->
                      IF st.players[i].id = playerId
                      THEN [st.players[i] EXCEPT !.isConnected = FALSE]
                      ELSE st.players[i]]]
            IN IF At(st.players, playerIndex).isCurrentTurn
               THEN thenNextTurn(st, newState)
               ELSE NewGameService(st, newState)
       ELSE LET isHost == At(st.players, playerIndex).isHost
                kept == SelectSeq(st.players, LAMBDA p : p.id # playerId)
                newPlayers ==
                    IF isHost /\ Len(kept) > 0
                    THEN [i \in 1..Len(kept) |->
                            IF i = 1 THEN [kept[i] EXCEPT !.isHost = TRUE] ELSE kept[i]]
                    ELSE kept
            IN NewGameService(st, [st EXCEPT !.players = newPlayers])

setPlayerReady(st, playerId, isReady) ==
    IF st.gameStatus # "waiting" THEN Fail(st)
    ELSE IF findIndex(st.players, playerId) = -1 THEN Fail(st)
    ELSE NewGameService(st,
            [st EXCEPT !.players = [i \in 1..Len(st.players) |->
                IF st.players[i].id = playerId
                THEN [st.players[i] EXCEPT !.isReady = isReady]
                ELSE st.players[i]]])

\* index (1-based) of the first number card of deck, 0 when there is none
FirstNumberCard(deck) ==
    IF \E i \in 1..Len(deck) : Card(deck[i]).type = "number"
    THEN CHOOSE i \in 1..Len(deck) :
            /\ Card(deck[i]).type = "number"
            /\ \A j \in 1..(i - 1) : Card(deck[j]).type # "number"
    ELSE 0

startGame(st, playerId, rnd, rndFirst) ==
    LET hostIndex == findIndex(st.players, playerId)
        readyPlayers == {i \in 1..Len(st.players) : st.players[i].isReady}
        shuffled == shuffleArray(createNewDeck, rnd)
        n == Len(st.players)
        dealt == [i \in 1..n |->
                    [st.players[i] EXCEPT
                        !.cards = Take(Drop(shuffled, (i - 1) * DealSize), DealSize),
                        !.isReady = TRUE,
                        !.isCurrentTurn = FALSE]]
        rest == Drop(shuffled, n * DealSize)
        found == FirstNumberCard(rest)
        deck == IF found = 0 THEN shuffleArray(rest, rnd) ELSE rest
        startingCardIndex == IF found = 0 THEN 1 ELSE found
        firstPlayerIndex == (rndFirst.num * n) \div rndFirst.den
    IN IF hostIndex = -1 \/ ~At(st.players, hostIndex).isHost THEN Fail(st)
       ELSE IF Cardinality(readyPlayers) < st.settings.minPlayers - 1 THEN Fail(st)
       ELSE IF Len(deck) = 0 THEN Fail(st)
       ELSE LET startingCard == deck[startingCardIndex]
            IN NewGameService(st,
                 [st EXCEPT
                    !.players = [i \in 1..n |->
                        [dealt[i] EXCEPT !.isCurrentTurn = (i - 1 = firstPlayerIndex)]],
                    !.currentPlayerIndex = firstPlayerIndex,
                    !.direction = 1,
                    !.deck = SubSeq(deck, 1, startingCardIndex - 1)
                                \o SubSeq(deck, startingCardIndex + 1, Len(deck)),
                    !.discardPile = <<startingCard>>,
                    !.currentColor = Card(startingCard).color,
                    !.lastPlayedCard = startingCard,
                    !.gameStatus = "playing",
                    !.actionHistory = <<>>,
                    !.pendingCardsToDraw = 0])

\* handleSevenZeroRule as a silent no-op: the call returns without an error
handleSevenZeroRule_silent(st) == Ok(st)

handleSevenZeroRule(st) == Fail(st)

\* handleJumpIn gone wrong: the out-of-turn play is let through
handleJumpIn_accepts(st, playerId, cardId) == Ok(st)

handleJumpIn(st, playerId, cardId) == Fail(st)

TopCard(st) == st.discardPile[Len(st.discardPile)]

\* the stacking gone wrong: a wild4 counts as a draw2
playCard_pending_flat(st, cardId) ==
    IF isDrawCard(cardId) THEN st.pendingCardsToDraw + 2 ELSE st.pendingCardsToDraw

\* the card-effect part of playCard: pendingCardsToDraw after the play
playCard_pending(st, cardId) ==
    IF isDrawCard(cardId)
    THEN IF Card(cardId).type = "draw2" THEN st.pendingCardsToDraw + 2
         ELSE IF Card(cardId).type = "wild4" THEN st.pendingCardsToDraw + 4
         ELSE st.pendingCardsToDraw
    ELSE st.pendingCardsToDraw

\* the winner branch gone wrong: the losers' round scores are not negated
playCard_scores_positive(updatedPlayers, playerId) ==
    LET roundScores == [i \in 1..Len(updatedPlayers) |-> SumPoints(updatedPlayers[i].cards)]
        RECURSIVE Sum(_)
        Sum(i) == IF i = 0 THEN 0 ELSE roundScores[i] + Sum(i - 1)
        winPoints == Sum(Len(updatedPlayers))
    IN [i \in 1..Len(updatedPlayers) |->
          IF updatedPlayers[i].id = playerId
          THEN [updatedPlayers[i] EXCEPT !.score = @ + winPoints, !.roundScore = winPoints]
          ELSE [updatedPlayers[i] EXCEPT !.roundScore = roundScores[i]]]

\* the winner branch of playCard: scores of updatedPlayers once playerIndex has won
playCard_scores(updatedPlayers, playerId) ==
    LET roundScores == [i \in 1..Len(updatedPlayers) |-> SumPoints(updatedPlayers[i].cards)]
        RECURSIVE Sum(_)
        Sum(i) == IF i = 0 THEN 0 ELSE roundScores[i] + Sum(i - 1)
        winPoints == Sum(Len(updatedPlayers))
    IN [i \in 1..Len(updatedPlayers) |->
          IF updatedPlayers[i].id = playerId
          THEN [updatedPlayers[i] EXCEPT !.score = @ + winPoints, !.roundScore = winPoints]
          ELSE [updatedPlayers[i] EXCEPT !.roundScore = 0 - roundScores[i]]]

\* the colour gone wrong: the colour printed on the card, wild or not
playCard_newColor_printed(cardId, chosenColor) == Card(cardId).color

\* playCard: const newColor = isWildCard(card) ? chosenColor! : card.color
playCard_newColor(cardId, chosenColor) ==
    IF isWildCard(cardId) THEN chosenColor ELSE Card(cardId).color

playCard(st, playerId, cardId, chosenColor) ==
    LET playerIndex == findIndex(st.players, playerId)
    IN IF playerIndex = -1 \/ ~At(st.players, playerIndex).isCurrentTurn
       THEN IF st.settings.jumpIn THEN handleJumpIn(st, playerId, cardId) ELSE Fail(st)
       ELSE
       LET player == At(st.players, playerIndex)
       IN IF cardId \notin Range(player.cards) THEN Fail(st)
          ELSE IF ~canPlayOnTop(cardId, TopCard(st), st.currentColor, st.settings)
          THEN Fail(st)
          ELSE IF /\ st.settings.noBluffing
                  /\ Card(cardId).type = "wild4"
                  /\ \E c \in Range(player.cards) :
                        c # cardId /\ Card(c).color = st.currentColor
          THEN Fail(st)
          ELSE IF isWildCard(cardId) /\ chosenColor = NoColor THEN Fail(st)
          ELSE IF /\ Card(cardId).type = "number"
                  /\ st.settings.sevenZero
                  /\ (Card(cardId).value = 7 \/ Card(cardId).value = 0)
          THEN handleSevenZeroRule(st)
          ELSE
          LET newColor == playCard_newColor(cardId, chosenColor)
              newPlayerCards == Without(player.cards, cardId)
              nextPlayerIndex ==
                  IF Card(cardId).type = "skip"
                  THEN getNextPlayerIndex_from(st, st.currentPlayerIndex)
                  ELSE st.currentPlayerIndex
              direction ==
                  IF Card(cardId).type = "reverse"
                  THEN (IF st.direction = 1 THEN -1 ELSE 1)
                  ELSE st.direction
              updatedPlayers == [i \in 1..Len(st.players) |->
                  IF i - 1 = playerIndex
                  THEN [st.players[i] EXCEPT !.cards = newPlayerCards]
                  ELSE st.players[i]]
              isWin == newPlayerCards = <<>>
              newState ==
                  [st EXCEPT
                     !.players = IF isWin THEN playCard_scores(updatedPlayers, playerId)
                                 ELSE updatedPlayers,
                     !.currentPlayerIndex = nextPlayerIndex,
                     !.direction = direction,
                     !.discardPile = Append(st.discardPile, cardId),
                     !.currentColor = newColor,
                     !.lastPlayedCard = cardId,
                     !.gameStatus = IF isWin THEN "finished" ELSE st.gameStatus,
                     !.winner = IF isWin THEN playerId ELSE NoPlayer,
                     !.lastAction = [type |-> "play", player |-> playerId, card |-> cardId],
                     !.actionHistory =
                         pushAction([type |-> "play", player |-> playerId,
                                     card |-> cardId], st.actionHistory),
                     !.pendingCardsToDraw = playCard_pending(st, cardId)]
          IN IF nextPlayerIndex = Diverges THEN Hang(st)
             ELSE IF isWin THEN NewGameService(st, newState)
             ELSE thenNextTurn(st, newState)

\* the refill gone wrong: the top card is shuffled back as well
handleCardDraw_deck_whole(cur, cardsToDraw, rnd) ==
    IF Len(cur.deck) < cardsToDraw
    THEN cur.deck \o shuffleArray(cur.discardPile, rnd)
    ELSE cur.deck

\* handleCardDraw: the pile the cards are drawn from, refilled from the discard
\* pile (all but its top card) when it is shorter than cardsToDraw
handleCardDraw_deck(cur, cardsToDraw, rnd) ==
    IF Len(cur.deck) < cardsToDraw
    THEN cur.deck \o shuffleArray(SubSeq(cur.discardPile, 1, Len(cur.discardPile) - 1), rnd)
    ELSE cur.deck

\* the refill gone wrong: the discard pile keeps the cards shuffled back
handleCardDraw_discard_kept(cur, cardsToDraw) == cur.discardPile

\* the refill gone wrong: the first card of the discard pile is kept, not the last
handleCardDraw_discard_bottom(cur, cardsToDraw) ==
    IF Len(cur.deck) < cardsToDraw THEN <<cur.discardPile[1]>> ELSE cur.discardPile

\* handleCardDraw: the discard pile left by the refill
handleCardDraw_discard(cur, cardsToDraw) ==
    IF Len(cur.deck) < cardsToDraw THEN <<TopCard(cur)>> ELSE cur.discardPile

\* handleCardDraw on snapshot cur, while serving an operation called on st
handleCardDraw(st, cur, playerId, cardsToDraw, rnd) ==
    LET playerIndex == findIndex(cur.players, playerId)
        deck == handleCardDraw_deck(cur, cardsToDraw, rnd)
        drawnCards == Take(deck, cardsToDraw)
        newState ==
            [cur EXCEPT
               !.players = [i \in 1..Len(cur.players) |->
                   IF i - 1 = playerIndex
                   THEN [cur.players[i] EXCEPT !.cards = @ \o drawnCards]
                   ELSE cur.players[i]],
               !.deck = Drop(deck, cardsToDraw),
               !.discardPile = handleCardDraw_discard(cur, cardsToDraw),
               !.pendingCardsToDraw = 0,
               !.lastAction = [type |-> "draw", player |-> playerId, card |-> NoCard],
               !.actionHistory =
                   pushAction([type |-> "draw", player |-> playerId, card |-> NoCard],
                              cur.actionHistory)]
    IN IF playerIndex = -1 THEN Fail(st)
       ELSE IF cur.settings.passAfterDraw THEN nextTurn(st, newState)
       ELSE Ok(newState)

drawCards(st, playerId, rnd) ==
    LET playerIndex == findIndex(st.players, playerId)
        cardsToDraw == IF st.pendingCardsToDraw > 0 THEN st.pendingCardsToDraw ELSE 1
    IN IF playerIndex = -1 \/ ~At(st.players, playerIndex).isCurrentTurn THEN Fail(st)
       ELSE LET drawn == handleCardDraw(st, st, playerId, cardsToDraw, rnd)
            IN IF drawn.ok THEN NewGameService(st, drawn.state) ELSE drawn

\* the while loop of drawUntilMatch, entered with snapshot cur after cardsDrawn draws
RECURSIVE drawUntilMatch_loop(_, _, _, _, _, _)
drawUntilMatch_loop(st, cur, playerId, cardsDrawn, maxDraws, rnd) ==
    IF cardsDrawn >= maxDraws THEN Ok(cur)
    ELSE LET drawn == handleCardDraw(st, cur, playerId, 1, rnd)
         IN IF ~drawn.ok THEN drawn
            ELSE LET hand == At(drawn.state.players,
                                findIndex(drawn.state.players, playerId)).cards
                 IN IF hand = <<>> THEN Fail(st)
                    ELSE IF canPlayOnTop(hand[Len(hand)], TopCard(drawn.state),
                                         drawn.state.currentColor, drawn.state.settings)
                    THEN drawn
                    ELSE drawUntilMatch_loop(st, drawn.state, playerId,
                                             cardsDrawn + 1, maxDraws, rnd)

drawUntilMatch(st, playerId, rnd) ==
    LET playerIndex == findIndex(st.players, playerId)
        maxDraws == IF st.settings.drawCardLimit = 0 THEN 3 ELSE st.settings.drawCardLimit
    IN IF ~st.settings.drawUntilMatch THEN Fail(st)
       ELSE IF playerIndex = -1 \/ ~At(st.players, playerIndex).isCurrentTurn THEN Fail(st)
       ELSE IF \E c \in Range(At(st.players, playerIndex).cards) :
                  canPlayOnTop(c, TopCard(st), st.currentColor, st.settings)
       THEN Fail(st)
       ELSE LET looped == drawUntilMatch_loop(st, st, playerId, 0, maxDraws, rnd)
            IN IF ~looped.ok THEN looped
               ELSE IF st.settings.passAfterDraw THEN thenNextTurn(st, looped.state)
               ELSE NewGameService(st, looped.state)

skipTurn(st, playerId) ==
    LET playerIndex == findIndex(st.players, playerId)
    IN IF playerIndex = -1 \/ ~At(st.players, playerIndex).isCurrentTurn THEN Fail(st)
       ELSE thenNextTurn(st,
               [st EXCEPT
                   !.lastAction = [type |-> "skip", player |-> playerId, card |-> NoCard],
                   !.actionHistory =
                       pushAction([type |-> "skip", player |-> playerId,
                                   card |-> NoCard], st.actionHistory)])

\* challengeWildFour open to any player of the room, whoever holds the turn
challengeWildFour_anyChallenger(st, challengerId, challengedId, rnd) ==
    LET lastAction == st.lastAction
        challengerIndex == findIndex(st.players, challengerId)
        challengedIndex == findIndex(st.players, challengedId)
    IN IF ~st.settings.allowChallenges THEN Fail(st)
       ELSE IF \/ lastAction.type # "play"
               \/ lastAction.card = NoCard
               \/ Card(lastAction.card).type # "wild4"
       THEN Fail(st)
       ELSE IF challengerIndex = -1 THEN Fail(st)
       ELSE IF challengedIndex = -1 \/ lastAction.player # challengedId THEN Fail(st)
       ELSE IF Len(st.discardPile) < 2 THEN Fail(st)
       ELSE
       LET prevColor == Card(st.discardPile[Len(st.discardPile) - 1]).color
           playedCard == lastAction.card
           handAtPlay == Append(At(st.players, challengedIndex).cards, playedCard)
           hadMatchingCard == \E c \in Range(handAtPlay) :
                                  c # playedCard /\ Card(c).color = prevColor
           drawn == IF hadMatchingCard
                    THEN handleCardDraw(st, st, challengedId, 4, rnd)
                    ELSE handleCardDraw(st, st, challengerId, 6, rnd)
       IN IF ~drawn.ok THEN drawn
          ELSE NewGameService(st,
                  [drawn.state EXCEPT
                      !.pendingCardsToDraw = 0,
                      !.challengePending =
                          [challenger |-> challengerId, challenged |-> challengedId,
                           isValid |-> hadMatchingCard]])

challengeWildFour(st, challengerId, challengedId, rnd) ==
    LET lastAction == st.lastAction
        challengerIndex == findIndex(st.players, challengerId)
        challengedIndex == findIndex(st.players, challengedId)
    IN IF ~st.settings.allowChallenges THEN Fail(st)
       ELSE IF \/ lastAction.type # "play"
               \/ lastAction.card = NoCard
               \/ Card(lastAction.card).type # "wild4"
       THEN Fail(st)
       ELSE IF challengerIndex = -1 \/ challengerIndex # st.currentPlayerIndex THEN Fail(st)
       ELSE IF challengedIndex = -1 \/ lastAction.player # challengedId THEN Fail(st)
       ELSE IF Len(st.discardPile) < 2 THEN Fail(st)
       ELSE
       LET prevColor == Card(st.discardPile[Len(st.discardPile) - 1]).color
           playedCard == lastAction.card
           handAtPlay == Append(At(st.players, challengedIndex).cards, playedCard)
           hadMatchingCard == \E c \in Range(handAtPlay) :
                                  c # playedCard /\ Card(c).color = prevColor
           drawn == IF hadMatchingCard
                    THEN handleCardDraw(st, st, challengedId, 4, rnd)
                    ELSE handleCardDraw(st, st, challengerId, 6, rnd)
       IN IF ~drawn.ok THEN drawn
          ELSE NewGameService(st,
                  [drawn.state EXCEPT
                      !.pendingCardsToDraw = 0,
                      !.challengePending =
                          [challenger |-> challengerId, challenged |-> challengedId,
                           isValid |-> hadMatchingCard]])

\* What deck.splice(0, cardsToDraw) in handleCardDraw leaves in the deck array
\* of the snapshot cur it was handed: the array of cur itself is spliced, unless
\* the refill has replaced it by a new array first.
handleCardDraw_spliced(cur, cardsToDraw) ==
    IF Len(cur.deck) < cardsToDraw THEN cur.deck ELSE Drop(cur.deck, cardsToDraw)

\* The GameState held by the GameService instance on which the successful call
\* was made, once the call has returned newState. getState copies the state
\* object, not its arrays, and the snapshots built by drawUntilMatch's loop go on
\* sharing the deck array until a refill.
heldAfter(st, call, newState) ==
    LET playerIndex == findIndex(st.players, call.player)
        added == Len(At(newState.players, playerIndex).cards)
                    - Len(At(st.players, playerIndex).cards)
    IN CASE call.op = "drawCards" ->
               [st EXCEPT !.deck = handleCardDraw_spliced(st,
                   IF st.pendingCardsToDraw > 0 THEN st.pendingCardsToDraw ELSE 1)]
         [] call.op = "challengeWildFour" ->
               [st EXCEPT !.deck = handleCardDraw_spliced(st,
                   IF newState.challengePending.isValid THEN 4 ELSE 6)]
         [] call.op = "drawUntilMatch" ->
               [st EXCEPT !.deck = Drop(st.deck,
                   IF added < Len(st.deck) THEN added ELSE Len(st.deck))]
         [] OTHER -> st

(* ------------------------- the state machine -------------------------- *)

\* settings handed to createGame, merged over the defaults
SettingsSet ==
    { getDefaultGameSettings,
      [getDefaultGameSettings EXCEPT !.passAfterDraw = FALSE, !.drawUntilMatch = TRUE,
                                     !.allowChallenges = FALSE, !.drawCardLimit = 2],
      [getDefaultGameSettings EXCEPT !.jumpIn = TRUE, !.sevenZero = TRUE,
                                     !.noBluffing = TRUE, !.maxPlayers = 2] }

\* ids a caller can present: every connection opened so far and one that is
\* no connection of this room
CallerIds == 0..conns

\* cardId values sent with playCard: the caller's own cards and one card that is
\* not in the caller's hand
CardInputs(playerId) ==
    LET playerIndex == findIndex(state.players, playerId)
        hand == IF playerIndex = -1 THEN {} ELSE Range(At(state.players, playerIndex).cards)
    IN hand \cup {CHOOSE c \in CardIds : c \notin hand}

\* Math.random() outcomes to explore for a call whose outcome with the first one
\* is result: a call that is rejected is rejected whatever the random source gives
RandomInputs(result) == IF result.ok THEN RandomOutcomes ELSE {FirstOutcome}

\* chosenColor values sent with a card
ColorInputs(cardId) ==
    IF isWildCard(cardId) THEN {NoColor} \cup Range(Colors) ELSE {NoColor}

\* the values of the type CardColor, which is the type of chosenColor
CardColor == Range(Colors) \cup {"black", "wild"}

\* socket ids and room codes of the server that holds several rooms
Sockets == 1..MaxSockets

\* the types of GameEvent that are listened to
EventTypes == {"CARD_PLAYED", "TURN_CHANGED"}
Rooms == {"R1", "R2"}

\* a socket with no handler running
IdleFrame == [pc |-> "idle"]

Call(op, player, card, color, target) ==
    [op |-> op, player |-> player, card |-> card, color |-> color, target |-> target]

\* A call that is accepted: the room replaces its GameService by the one the
\* operation returns, and last records the call. A call that throws (or does not
\* return) leaves the room as it is, so it is no step of the room.
Serve(op, player, card, color, target, result) ==
    /\ result.ok
    /\ state' = result.state
    /\ last' = Call(op, player, card, color, target)
    /\ steps' = IF state.gameStatus # "waiting" THEN steps + 1 ELSE steps
    /\ UNCHANGED <<serverVars, lobbyVars, emitter, shuffling>>

\* the server before any room is created: every socket connected, no handler
\* running
ServerIdle ==
    /\ games = <<>>
    /\ frames = [s \in Sockets |-> IdleFrame]
    /\ emitted = {}

\* the server with the room sweep before any room is created
LobbyIdle ==
    /\ lobby = [sockets |-> [s \in Sockets |-> "unborn"], games |-> <<>>,
                usedCodes |-> {}]
    /\ now = 0
    /\ event = [op |-> "listen"]

\* an emitter nobody listens to, and no shuffle under way
EmitterIdle == emitter = [events |-> <<>>,
                          listeners |-> [type \in EventTypes |-> <<>>],
                          invoked |-> <<>>, threw |-> FALSE, completed |-> 0]
ShuffleIdle == shuffling = [array |-> <<>>, newArray |-> <<>>, i |-> 0]

Init ==
    /\ \E settings \in SettingsSet : state = createGame(1, settings)
    /\ conns = 1
    /\ last = Call("createGame", 1, NoCard, NoColor, NoPlayer)
    /\ steps = 0
    /\ ServerIdle
    /\ LobbyIdle
    /\ EmitterIdle
    /\ ShuffleIdle

\* a join by a new connection (id conns + 1) or by one already known
AddPlayer ==
    \E playerId \in 1..(conns + 1) :
        LET result == addPlayer(state, playerId)
        IN /\ playerId > conns => conns < MaxPlayers
           /\ Serve("addPlayer", playerId, NoCard, NoColor, NoPlayer, result)
           /\ conns' = IF playerId > conns THEN playerId ELSE conns

RemovePlayer ==
    /\ \E playerId \in CallerIds :
          Serve("removePlayer", playerId, NoCard, NoColor, NoPlayer,
                removePlayer(state, playerId))
    /\ UNCHANGED conns

SetPlayerReady ==
    /\ \E playerId \in CallerIds, isReady \in BOOLEAN :
          Serve("setPlayerReady", playerId, NoCard, NoColor, NoPlayer,
                setPlayerReady(state, playerId, isReady))
    /\ UNCHANGED conns

StartGame ==
    /\ \E playerId \in CallerIds :
         \E rnd \in RandomInputs(startGame(state, playerId, FirstOutcome, FirstOutcome)) :
           \E rndFirst \in RandomInputs(startGame(state, playerId, FirstOutcome, FirstOutcome)) :
              Serve("startGame", playerId, NoCard, NoColor, NoPlayer,
                    startGame(state, playerId, rnd, rndFirst))
    /\ UNCHANGED conns

PlayCard ==
    /\ \E playerId \in CallerIds :
       \E cardId \in CardInputs(playerId) :
         \E chosenColor \in ColorInputs(cardId) :
            Serve("playCard", playerId, cardId, chosenColor, NoPlayer,
                  playCard(state, playerId, cardId, chosenColor))
    /\ UNCHANGED conns

DrawCards ==
    /\ \E playerId \in CallerIds :
         \E rnd \in RandomInputs(drawCards(state, playerId, FirstOutcome)) :
            Serve("drawCards", playerId, NoCard, NoColor, NoPlayer,
                  drawCards(state, playerId, rnd))
    /\ UNCHANGED conns

DrawUntilMatch ==
    /\ \E playerId \in CallerIds :
         \E rnd \in RandomInputs(drawUntilMatch(state, playerId, FirstOutcome)) :
            Serve("drawUntilMatch", playerId, NoCard, NoColor, NoPlayer,
                  drawUntilMatch(state, playerId, rnd))
    /\ UNCHANGED conns

SkipTurn ==
    /\ \E playerId \in CallerIds :
          Serve("skipTurn", playerId, NoCard, NoColor, NoPlayer,
                skipTurn(state, playerId))
    /\ UNCHANGED conns

ChallengeWildFour ==
    /\ \E challengerId \in CallerIds, challengedId \in CallerIds :
         \E rnd \in RandomInputs(challengeWildFour(state, challengerId, challengedId, FirstOutcome)) :
            Serve("challengeWildFour", challengerId, NoCard, NoColor, challengedId,
                  challengeWildFour(state, challengerId, challengedId, rnd))
    /\ UNCHANGED conns

\* the exploration stops MaxSteps accepted calls after the game has started
Bounded(limit) == state.gameStatus # "waiting" => steps < limit

Next ==
    \/ Bounded(MaxSteps) /\ AddPlayer
    \/ Bounded(MaxSteps) /\ RemovePlayer
    \/ Bounded(MaxSteps) /\ SetPlayerReady
    \/ Bounded(MaxSteps) /\ StartGame
    \/ Bounded(MaxSteps) /\ PlayCard
    \/ Bounded(MaxSteps) /\ DrawCards
    \/ Bounded(MaxSteps) /\ DrawUntilMatch
    \/ Bounded(MaxSteps) /\ SkipTurn
    \/ Bounded(MaxSteps) /\ ChallengeWildFour

Spec == Init /\ [][Next]_vars

\* GameStateManager.getState: a frozen shallow copy, field for field the snapshot
getState(st) == [field \in DOMAIN st |-> st[field]]

\* the payload of the gameStateUpdated event that the joinGame, playCard,
\* drawCard and disconnect handlers send to every socket of the room once the
\* new snapshot st is stored
gameStateUpdated(st) == getState(st)

\* the operations whose handler sends gameStateUpdated
Broadcasting == {"addPlayer", "playCard", "drawCards", "removePlayer"}

\* A two-player game played out by playCard and drawCards alone: no restart, nobody
\* leaves. Every behaviour of Duel is a behaviour of the server, followed deeper.
DuelNext ==
    \/ Bounded(MaxDuelSteps) /\ Len(state.players) < 2 /\ AddPlayer
    \/ Bounded(MaxDuelSteps) /\ SetPlayerReady
    \/ Bounded(MaxDuelSteps) /\ state.gameStatus = "waiting" /\ StartGame
    \/ Bounded(MaxDuelSteps) /\ PlayCard
    \/ Bounded(MaxDuelSteps) /\ DrawCards

Duel == Init /\ [][DuelNext]_vars

\* startGame with the deck shuffled on a finer sample of Math.random()
StartGameFine ==
    /\ \E playerId \in CallerIds :
         \E rnd \in Sample(FineDenom), rndFirst \in RandomOutcomes :
            Serve("startGame", playerId, NoCard, NoColor, NoPlayer,
                  startGame(state, playerId, rnd, rndFirst))
    /\ UNCHANGED conns

\* The room up to the deal and one call after it, the deck being shuffled in more
\* ways than in Spec.
DealNext ==
    \/ Bounded(MaxDealSteps) /\ AddPlayer
    \/ Bounded(MaxDealSteps) /\ RemovePlayer
    \/ Bounded(MaxDealSteps) /\ SetPlayerReady
    \/ Bounded(MaxDealSteps) /\ StartGameFine

Deal == Init /\ [][DealNext]_vars

\* A game in which nobody plays a card: the players only draw and pass, so the
\* draw pile runs dry. Every behaviour of Drought is a behaviour of the server.
DroughtNext ==
    \/ Bounded(MaxDrawSteps) /\ AddPlayer
    \/ Bounded(MaxDrawSteps) /\ SetPlayerReady
    \/ Bounded(MaxDrawSteps) /\ state.gameStatus = "waiting" /\ StartGame
    \/ Bounded(MaxDrawSteps) /\ DrawCards
    \/ Bounded(MaxDrawSteps) /\ DrawUntilMatch
    \/ Bounded(MaxDrawSteps) /\ SkipTurn

Drought == Init /\ [][DroughtNext]_vars

\* Rooms created with the draw-until-match rule, with and without passAfterDraw,
\* in which cards are drawn and turns are skipped
RelaySettings ==
    { [getDefaultGameSettings EXCEPT !.drawUntilMatch = TRUE],
      [getDefaultGameSettings EXCEPT !.drawUntilMatch = TRUE,
                                     !.passAfterDraw = FALSE] }

RelayInit ==
    /\ \E settings \in RelaySettings : state = createGame(1, settings)
    /\ conns = 1
    /\ last = Call("createGame", 1, NoCard, NoColor, NoPlayer)
    /\ steps = 0
    /\ ServerIdle
    /\ LobbyIdle
    /\ EmitterIdle
    /\ ShuffleIdle

RelayNext ==
    \/ Bounded(MaxDrawSteps) /\ AddPlayer
    \/ Bounded(MaxDrawSteps) /\ SetPlayerReady
    \/ Bounded(MaxDrawSteps) /\ state.gameStatus = "waiting" /\ StartGame
    \/ Bounded(MaxDrawSteps) /\ DrawUntilMatch
    \/ Bounded(MaxDrawSteps) /\ SkipTurn

Relay == RelayInit /\ [][RelayNext]_vars

\* A two-player game in which players leave, during play and after the round is
\* over, while cards are still played by whoever is asked to. Every behaviour of
\* Walkout is a behaviour of the server.
WalkoutNext ==
    \/ Bounded(MaxWalkSteps) /\ Len(state.players) < 2 /\ AddPlayer
    \/ Bounded(MaxWalkSteps) /\ SetPlayerReady
    \/ Bounded(MaxWalkSteps) /\ state.gameStatus = "waiting" /\ StartGame
    \/ Bounded(MaxWalkSteps) /\ RemovePlayer
    \/ Bounded(MaxWalkSteps) /\ PlayCard

Walkout == Init /\ [][WalkoutNext]_vars

(* ------------------ the server that holds several rooms ---------------- *)

\* Map.has, Map.get and Map.set on the entries of games
gamesHas(entries, roomCode) ==
    \E k \in 1..Len(entries) : entries[k].roomCode = roomCode

gamesGet(entries, roomCode) ==
    entries[CHOOSE k \in 1..Len(entries) : entries[k].roomCode = roomCode].game

gamesSet(entries, roomCode, game) ==
    IF gamesHas(entries, roomCode)
    THEN [k \in 1..Len(entries) |->
             IF entries[k].roomCode = roomCode
             THEN [roomCode |-> roomCode, game |-> game]
             ELSE entries[k]]
    ELSE Append(entries, [roomCode |-> roomCode, game |-> game])

\* the event loop with handlers that give up control between games.get and
\* games.set: a socket's handler starts whatever the other sockets are running
Runnable_yielding(s) == frames[s].pc = "idle"

\* the event loop: the handlers hold no await, so each runs to its end before
\* the next message is taken up
Runnable(s) ==
    /\ frames[s].pc = "idle"
    /\ \A t \in Sockets : frames[t].pc \in {"idle", "closed"}

\* the event sent to every socket of the server instead of the room's
emitToRoom_everyone(roomCode, payload) ==
    {[roomCode |-> r, payload |-> payload] : r \in Rooms}

\* io.to(roomCode).emit('gameStateUpdated', payload)
emitToRoom(roomCode, payload) == {[roomCode |-> roomCode, payload |-> payload]}

\* the GameService call of a handler that has read game from the Map
Handle(frame, rnd) ==
    CASE frame.op = "joinGame" -> addPlayer(frame.game, frame.socket)
      [] frame.op = "playCard" ->
            playCard(frame.game, frame.socket, frame.card, frame.color)
      [] frame.op = "drawCard" -> drawCards(frame.game, frame.socket, rnd)

\* the createGame handler: the new game is stored under the room code the
\* client sent, whether or not the code is in use
CreateGame ==
    \E s \in Sockets, roomCode \in Rooms :
       /\ Runnable(s)
       /\ games' = gamesSet(games, roomCode, createGame(s, getDefaultGameSettings))
       /\ emitted' = {}
       /\ UNCHANGED <<frames, roomVars, lobbyVars, emitter, shuffling>>

\* a joinGame, playCard or drawCard message is taken up: games.get(roomCode);
\* a message for a room that does not exist is answered with an error
Receive ==
    \E s \in Sockets, roomCode \in Rooms :
       \E op \in {"joinGame", "playCard", "drawCard"}, card \in {0, DeckSize - 1} :
          \E color \in {NoColor, Colors[1]} :
             /\ Runnable(s)
             /\ gamesHas(games, roomCode)
             /\ op # "playCard" => card = 0 /\ color = NoColor
             /\ ~isWildCard(card) => color = NoColor
             /\ frames' = [frames EXCEPT ![s] =
                   [pc |-> "got", socket |-> s, op |-> op, roomCode |-> roomCode,
                    card |-> card, color |-> color,
                    game |-> gamesGet(games, roomCode)]]
             /\ emitted' = {}
             /\ UNCHANGED <<games, roomVars, lobbyVars, emitter, shuffling>>

\* the rest of the handler: the call on the game that was read, then games.set
\* and the broadcast to the room, or the error reply when the call throws
Apply ==
    \E s \in Sockets :
       /\ frames[s].pc = "got"
       /\ \E rnd \in RandomOutcomes :
             LET result == Handle(frames[s], rnd)
             IN /\ ~result.hang
                /\ IF result.ok
                   THEN /\ games' = gamesSet(games, frames[s].roomCode, result.state)
                        /\ emitted' = emitToRoom(frames[s].roomCode,
                                                 gameStateUpdated(result.state))
                   ELSE /\ games' = games
                        /\ emitted' = {}
       /\ frames' = [frames EXCEPT ![s] = IdleFrame]
       /\ UNCHANGED <<roomVars, lobbyVars, emitter, shuffling>>

\* the disconnect handler starts: games.forEach from the first entry
Disconnect ==
    \E s \in Sockets :
       /\ Runnable(s)
       /\ frames' = [frames EXCEPT ![s] =
             IF games = <<>> THEN [pc |-> "closed"]
             ELSE [pc |-> "closing", socket |-> s, k |-> 1]]
       /\ emitted' = {}
       /\ UNCHANGED <<games, roomVars, lobbyVars, emitter, shuffling>>

\* one round of games.forEach in the disconnect handler: removePlayer on the
\* game of the entry, stored and broadcast unless it throws
Visit ==
    \E s \in Sockets :
       /\ frames[s].pc = "closing"
       /\ LET k == frames[s].k
              entry == games[k]
              result == removePlayer(entry.game, s)
          IN /\ ~result.hang
             /\ IF result.ok
                THEN /\ games' = gamesSet(games, entry.roomCode, result.state)
                     /\ emitted' = emitToRoom(entry.roomCode,
                                              gameStateUpdated(result.state))
                ELSE /\ games' = games
                     /\ emitted' = {}
             /\ frames' = [frames EXCEPT ![s] =
                   IF k >= Len(games) THEN [pc |-> "closed"]
                   ELSE [pc |-> "closing", socket |-> s, k |-> k + 1]]
       /\ UNCHANGED <<roomVars, lobbyVars, emitter, shuffling>>

ServerNext ==
    \/ CreateGame
    \/ Receive
    \/ Apply
    \/ Disconnect
    \/ Visit

ServerInit ==
    /\ state = createGame(1, getDefaultGameSettings)
    /\ conns = 1
    /\ last = Call("createGame", 1, NoCard, NoColor, NoPlayer)
    /\ steps = 0
    /\ ServerIdle
    /\ LobbyIdle
    /\ EmitterIdle
    /\ ShuffleIdle

Server == ServerInit /\ [][ServerNext]_vars

(* ------------------ SocketServer and its room sweep ------------------- *)

\* env.game.minPlayersToStart
minPlayersToStart == 2

\* The static GameService of SocketServer. Its cards are followed by their
\* number only: a hand, the deck and the discard pile are card counts, lastCard
\* tells whether there is one, and the card a player names is absent from the
\* hand, held but not valid on lastCard, or held and valid; the cards are the
\* number cards, which only pass the turn.

\* GameService.initializeGame: every player takes deck.splice(0, 7), the last
\* card of the rest opens the discard pile
GameService_initializeGame(roomId, players) ==
    LET left[k \in 0..Len(players)] ==
            IF k = 0 THEN LobbyDeck
            ELSE IF left[k - 1] > LobbyHand THEN left[k - 1] - LobbyHand ELSE 0
        rest == left[Len(players)]
    IN [roomId |-> roomId,
        players |-> [k \in 1..Len(players) |->
                        [players[k] EXCEPT !.hand = left[k - 1] - left[k]]],
        currentPlayerIndex |-> 0,
        deck |-> IF rest > 0 THEN rest - 1 ELSE 0,
        discardPile |-> IF rest > 0 THEN 1 ELSE 0,
        isGameStarted |-> TRUE,
        lastCard |-> rest > 0,
        winner |-> NoPlayer]

\* GameService.drawCards
GameService_drawCards(gameState, playerId, count) ==
    LET playerIndex == findIndex(gameState.players, playerId)
        reshuffle == gameState.deck < count
        deck == IF ~reshuffle THEN gameState.deck
                ELSE IF gameState.discardPile > 0 THEN gameState.discardPile - 1
                ELSE 0
        discardPile == IF ~reshuffle THEN gameState.discardPile
                       ELSE IF gameState.discardPile > 0 THEN 1 ELSE 0
        drawnCards == IF deck < count THEN deck ELSE count
    IN IF playerIndex = -1 THEN gameState
       ELSE [gameState EXCEPT
                !.deck = deck - drawnCards,
                !.discardPile = discardPile,
                !.players[playerIndex + 1].hand = @ + drawnCards]

\* GameService.playCard; same tells that the state handed in was returned
GameService_playCard(gameState, playerId, card) ==
    LET playerIndex == findIndex(gameState.players, playerId)
        length == Len(gameState.players)
        hand == gameState.players[playerIndex + 1].hand
    IN IF playerIndex = -1 \/ playerIndex # gameState.currentPlayerIndex
       THEN [same |-> TRUE, state |-> gameState]
       ELSE IF card = "absent" \/ hand = 0
       THEN [same |-> TRUE, state |-> gameState]
       ELSE IF ~gameState.lastCard \/ card # "valid"
       THEN [same |-> TRUE, state |-> gameState]
       ELSE [same |-> FALSE,
             state |-> [gameState EXCEPT
                !.players[playerIndex + 1].hand = hand - 1,
                !.discardPile = @ + 1,
                !.currentPlayerIndex =
                    (gameState.currentPlayerIndex + 1 + length) % length,
                !.winner = IF hand = 1 THEN playerId ELSE @,
                !.isGameStarted = IF hand = 1 THEN FALSE ELSE @]]

\* RoomCodeGenerator.generateRoomCode: the codes it can return
generateRoomCode(usedCodes) == Rooms \ usedCodes

\* Map.delete on the entries of games
gamesDelete(entries, roomCode) ==
    SelectSeq(entries, LAMBDA entry : entry.roomCode # roomCode)

\* a handler of a socket has run: one more message served
Handled ==
    /\ steps < MaxMessages
    /\ steps' = steps + 1
    /\ event' = [op |-> "handler"]
    /\ UNCHANGED <<now, state, conns, last, serverVars, emitter, shuffling>>

Open(s) == lobby.sockets[s] = "open"

HandleConnection ==
    \E s \in Sockets :
       /\ lobby.sockets[s] = "unborn"
       /\ lobby' = [lobby EXCEPT !.sockets[s] = "open"]
       /\ Handled

HandleCreateGame ==
    \E s \in Sockets :
      \E roomCode \in generateRoomCode(lobby.usedCodes) :
        LET player == [id |-> s, hand |-> 0, isHost |-> TRUE, isConnected |-> TRUE]
            gameRoom ==
              [gameState |-> [roomId |-> roomCode,
                              players |-> <<player>>,
                              currentPlayerIndex |-> 0,
                              deck |-> 0,
                              discardPile |-> 0,
                              isGameStarted |-> FALSE,
                              lastCard |-> FALSE,
                              winner |-> NoPlayer],
               settings |-> [maxPlayers |-> LobbySeats],
               createdAt |-> now,
               expiresAt |-> now + ROOM_EXPIRY_TIME,
               lastActivity |-> now]
        IN /\ Open(s)
           /\ lobby' = [lobby EXCEPT
                           !.games = gamesSet(@, roomCode, gameRoom),
                           !.usedCodes = @ \cup {roomCode}]
           /\ Handled

HandleJoinGame ==
    \E s \in Sockets, roomCode \in Rooms :
       /\ Open(s)
       /\ gamesHas(lobby.games, roomCode)
       /\ LET gameRoom == gamesGet(lobby.games, roomCode)
              player == [id |-> s, hand |-> 0, isHost |-> FALSE,
                         isConnected |-> TRUE]
          IN /\ ~gameRoom.gameState.isGameStarted
             /\ Len(gameRoom.gameState.players) < gameRoom.settings.maxPlayers
             /\ lobby' = [lobby EXCEPT !.games = gamesSet(@, roomCode,
                            [gameRoom EXCEPT
                                !.gameState.players = Append(@, player),
                                !.lastActivity = now])]
       /\ Handled

HandleStartGame ==
    \E s \in Sockets, roomCode \in Rooms :
       /\ Open(s)
       /\ gamesHas(lobby.games, roomCode)
       /\ LET gameRoom == gamesGet(lobby.games, roomCode)
              players == gameRoom.gameState.players
              playerIndex == findIndex(players, s)
          IN /\ playerIndex # -1
             /\ players[playerIndex + 1].isHost
             /\ Len(players) >= minPlayersToStart
             /\ lobby' = [lobby EXCEPT !.games = gamesSet(@, roomCode,
                            [gameRoom EXCEPT
                                !.gameState =
                                    GameService_initializeGame(roomCode, players),
                                !.lastActivity = now])]
       /\ Handled

HandlePlayCard ==
    \E s \in Sockets, roomCode \in Rooms, card \in {"absent", "invalid", "valid"} :
       /\ Open(s)
       /\ gamesHas(lobby.games, roomCode)
       /\ LET gameRoom == gamesGet(lobby.games, roomCode)
              updatedGame == GameService_playCard(gameRoom.gameState, s, card)
          IN /\ ~updatedGame.same
             /\ lobby' = [lobby EXCEPT !.games = gamesSet(@, roomCode,
                            [gameRoom EXCEPT
                                !.gameState = updatedGame.state,
                                !.lastActivity = now])]
       /\ Handled

HandleDrawCard ==
    \E s \in Sockets, roomCode \in Rooms :
       /\ Open(s)
       /\ gamesHas(lobby.games, roomCode)
       /\ LET gameRoom == gamesGet(lobby.games, roomCode)
          IN lobby' = [lobby EXCEPT !.games = gamesSet(@, roomCode,
                          [gameRoom EXCEPT
                              !.gameState =
                                  GameService_drawCards(gameRoom.gameState, s, 1),
                              !.lastActivity = now])]
       /\ Handled

\* the rooms of socket s in the order of the Map; the handler deals with the first
Seated(entries, s) ==
    {k \in 1..Len(entries) : findIndex(entries[k].game.gameState.players, s) # -1}

\* the handler of disconnect on the entry it stops at
leave(entries, usedCodes, k, s) ==
    LET roomCode == entries[k].roomCode
        gameRoom == entries[k].game
        players == gameRoom.gameState.players
        playerIndex == findIndex(players, s)
        player == players[playerIndex + 1]
        spliced == SubSeq(players, 1, playerIndex)
                       \o SubSeq(players, playerIndex + 2, Len(players))
    IN IF gameRoom.gameState.isGameStarted
       THEN [games |-> gamesSet(entries, roomCode,
                         [gameRoom EXCEPT
                             !.gameState.players[playerIndex + 1].isConnected = FALSE,
                             !.lastActivity = now]),
             usedCodes |-> usedCodes]
       ELSE IF Len(spliced) = 0
       THEN [games |-> gamesDelete(entries, roomCode),
             usedCodes |-> usedCodes \ {roomCode}]
       ELSE [games |-> gamesSet(entries, roomCode,
                         [gameRoom EXCEPT !.gameState.players =
                             IF player.isHost
                             THEN [spliced EXCEPT ![1].isHost = TRUE]
                             ELSE spliced]),
             usedCodes |-> usedCodes]

HandleDisconnect ==
    \E s \in Sockets :
       /\ Open(s)
       /\ LET seated == Seated(lobby.games, s)
              first == CHOOSE k \in seated : \A other \in seated : k <= other
              left == IF seated = {}
                      THEN [games |-> lobby.games, usedCodes |-> lobby.usedCodes]
                      ELSE leave(lobby.games, lobby.usedCodes, first, s)
          IN lobby' = [sockets |-> [lobby.sockets EXCEPT ![s] = "closed"],
                       games |-> left.games,
                       usedCodes |-> left.usedCodes]
       /\ Handled

\* the conditions of the sweep at time t
isExpired(room, t) == t > room.expiresAt

isInactive(room, t) == t - room.lastActivity > RoomIdleLimit

\* the sweep that closes every idle room, started or not
cleanupInactiveRooms_idle(entries, t) ==
    SelectSeq(entries, LAMBDA entry :
        ~(isExpired(entry.game, t) \/ isInactive(entry.game, t)))

\* SocketServer.cleanupInactiveRooms: the entries it leaves in the Map
cleanupInactiveRooms(entries, t) ==
    SelectSeq(entries, LAMBDA entry :
        ~(\/ isExpired(entry.game, t)
          \/ isInactive(entry.game, t) /\ ~entry.game.gameState.isGameStarted))

\* the roomClosed events of a sweep that took entries to kept
roomClosed(entries, kept, t) ==
    {[roomCode |-> entries[k].roomCode,
      reason |-> IF isExpired(entries[k].game, t) THEN "expired" ELSE "inactive"] :
        k \in {i \in 1..Len(entries) : ~gamesHas(kept, entries[i].roomCode)}}

\* the timer of startCleanupInterval fires
CleanupInactiveRooms ==
    /\ now > 0
    /\ now % ROOM_CLEANUP_INTERVAL = 0
    /\ LET kept == cleanupInactiveRooms(lobby.games, now)
           closed == roomClosed(lobby.games, kept, now)
       IN /\ lobby' = [lobby EXCEPT
                          !.games = kept,
                          !.usedCodes = @ \ {c.roomCode : c \in closed}]
          /\ event' = [op |-> "cleanupInactiveRooms", at |-> now, closed |-> closed]
    /\ UNCHANGED <<now, roomVars, serverVars, emitter, shuffling>>

\* time passes
Tick ==
    /\ now < MaxTime
    /\ now' = now + 1
    /\ UNCHANGED <<lobby, event, roomVars, serverVars, emitter, shuffling>>

LobbyNext ==
    \/ HandleConnection
    \/ HandleCreateGame
    \/ HandleJoinGame
    \/ HandleStartGame
    \/ HandlePlayCard
    \/ HandleDrawCard
    \/ HandleDisconnect
    \/ CleanupInactiveRooms
    \/ Tick

Lobby == ServerInit /\ [][LobbyNext]_vars

(* -------------------------- GameEventEmitter -------------------------- *)

\* A listener is its number in the order of registration and whether it throws
\* when it is called.

\* eventListeners.forEach(listener => listener(event)): the listeners called, up
\* to the first that throws
RECURSIVE forEach(_)
forEach(eventListeners) ==
    IF eventListeners = <<>> THEN <<>>
    ELSE IF Head(eventListeners).throws THEN <<Head(eventListeners).id>>
    ELSE <<Head(eventListeners).id>> \o forEach(Tail(eventListeners))

\* GameEventEmitter.emit: the event is logged, the listeners of its type are
\* called; threw tells that the call ended with the exception of a listener
emit(em, type) ==
    LET eventListeners == em.listeners[type]
    IN [em EXCEPT
           !.events = Append(@, type),
           !.invoked = forEach(eventListeners),
           !.threw = \E k \in 1..Len(eventListeners) : eventListeners[k].throws]

\* GameEventEmitter.on
on(em, type, listener) ==
    [em EXCEPT !.listeners[type] = Append(@, listener)]

Registered(em) == {l.id : l \in UNION {Range(em.listeners[type]) : type \in EventTypes}}

\* a listener is registered
On ==
    \E type \in EventTypes, throws \in BOOLEAN :
       /\ Cardinality(Registered(emitter)) < MaxListeners
       /\ emitter' = on(emitter, type,
                        [id |-> Cardinality(Registered(emitter)) + 1,
                         throws |-> throws])
       /\ UNCHANGED <<roomVars, serverVars, lobbyVars, shuffling>>

\* an operation of the kind of GameService.addPlayer: the new state is built,
\* the event is emitted, the new snapshot is returned unless emit threw
Transition ==
    \E type \in EventTypes :
       /\ Len(emitter.events) < MaxEvents
       /\ LET em == emit(emitter, type)
          IN emitter' = [em EXCEPT !.completed = IF em.threw THEN @ ELSE @ + 1]
       /\ UNCHANGED <<roomVars, serverVars, lobbyVars, shuffling>>

EmitterNext ==
    \/ On
    \/ Transition

Emitter == ServerInit /\ [][EmitterNext]_vars

(* ------------------------ shuffleArray, step by step ------------------ *)

\* the arrays handed to shuffleArray
ShuffleInputs ==
    UNION {[1..n -> 0..(MaxShuffleFaces - 1)] : n \in 0..MaxShuffleLen}

\* shuffleArray has been called: const newArray = [...array]; i = length - 1
ShuffleInit ==
    /\ state = createGame(1, getDefaultGameSettings)
    /\ conns = 1
    /\ last = Call("createGame", 1, NoCard, NoColor, NoPlayer)
    /\ steps = 0
    /\ ServerIdle
    /\ LobbyIdle
    /\ EmitterIdle
    /\ \E array \in ShuffleInputs :
          shuffling = [array |-> array, newArray |-> array, i |-> Len(array) - 1]

\* one round of the loop: j = floor(Math.random() * (i + 1)) is any of 0..i
ShuffleStep ==
    /\ shuffling.i > 0
    /\ \E rnd \in Sample(shuffling.i + 1) :
          LET i == shuffling.i
              j == (rnd.num * (i + 1)) \div rnd.den
          IN shuffling' = [shuffling EXCEPT
                              !.newArray = Swap(@, i + 1, j + 1),
                              !.i = i - 1]
    /\ UNCHANGED <<roomVars, serverVars, lobbyVars, emitter>>

ShuffleNext == ShuffleStep

Shuffle == ShuffleInit /\ [][ShuffleNext]_vars

(* ----------------------------- properties ----------------------------- *)

Players == 1..Len(state.players)

\* the player who made the call a step records, as a 1-based position before the step
Actor == findIndex(state.players, last'.player) + 1

\* every card held anywhere: draw pile, discard pile, then the hands in seat order
AllCards ==
    state.deck \o state.discardPile
        \o Flatten([i \in Players |-> state.players[i].cards])

\* C1: while the game is playing, every card of the deck built by createNewDeck is
\* in exactly one place: the draw pile, the discard pile or one player's hand
\* (DeckSize cards here, 108 in the full deck)
C1_CardsConserved ==
    state.gameStatus = "playing" =>
        /\ Len(AllCards) = DeckSize
        /\ Range(AllCards) = CardIds

\* a draw that had to refill the draw pile from the discard pile has happened
C1_Witness ==
    /\ state.gameStatus = "playing"
    /\ last.op = "drawCards"
    /\ Len(state.discardPile) = 1
    /\ Card(TopCard(state)).type = "wild4"
    /\ Len(AllCards) = DeckSize

\* C2: while the game is playing exactly one player has isCurrentTurn, and that
\* player is players[currentPlayerIndex]
C2_OneCurrentTurn ==
    state.gameStatus = "playing" =>
        /\ Cardinality({i \in Players : state.players[i].isCurrentTurn}) = 1
        /\ state.currentPlayerIndex \in 0..(Len(state.players) - 1)
        /\ At(state.players, state.currentPlayerIndex).isCurrentTurn

\* a skip card has been played among three players and the turn has moved on
C2_Witness ==
    /\ state.gameStatus = "playing"
    /\ last.op = "playCard"
    /\ Card(last.card).type = "skip"
    /\ Len(state.players) = 3
    /\ At(state.players, state.currentPlayerIndex).isCurrentTurn
    /\ At(state.players, state.currentPlayerIndex).id # last.player

\* the card c in the hand of the player at position i is no wild card and matches
\* neither the current colour nor the top card's number nor its action kind
C3_Mismatch(i, c) ==
    /\ state.players[i].isCurrentTurn
    /\ state.discardPile # <<>>
    /\ c \in Range(state.players[i].cards)
    /\ Card(c).type \notin {"wild", "wild4"}
    /\ Card(c).color # state.currentColor
    /\ ~(/\ Card(c).type = "number"
         /\ Card(TopCard(state)).type = "number"
         /\ Card(c).value = Card(TopCard(state)).value)
    /\ ~(/\ Card(c).type \in {"skip", "reverse", "draw2"}
         /\ Card(c).type = Card(TopCard(state)).type)

Rejected(result) == ~result.ok /\ ~result.hang /\ result.state = state

\* C3: playCard by the player whose turn it is, with a card of the hand that is not
\* wild, whose colour is not the current colour and that matches the top card
\* neither by number nor by action kind, throws and leaves the state as it was
C3_MismatchRejected ==
    \A i \in Players, c \in CardIds, chosenColor \in {NoColor} \cup Range(Colors) :
        C3_Mismatch(i, c) =>
            Rejected(playCard(state, state.players[i].id, c, chosenColor))

\* the player to move holds a number card that differs from the top number card in
\* both colour and value, and playing it is refused
C3_Witness ==
    \E i \in Players, c \in CardIds :
        /\ C3_Mismatch(i, c)
        /\ state.gameStatus = "playing"
        /\ Card(c).type = "number"
        /\ Card(TopCard(state)).type = "number"
        /\ ~playCard(state, state.players[i].id, c, NoColor).ok

\* playerId is not the id of a player who holds the turn
C4_OutOfTurn(playerId) ==
    \A i \in Players : state.players[i].id = playerId => ~state.players[i].isCurrentTurn

\* C4: playCard, drawCards, drawUntilMatch and skipTurn called by a player who does
\* not hold the turn, or by an id that is no player, throw and leave the state as
\* it was, whatever the settings (jumpIn included)
C4_OutOfTurnRejected ==
    \A playerId \in 0..(MaxPlayers + 1) :
        C4_OutOfTurn(playerId) =>
            /\ \A c \in CardIds, chosenColor \in {NoColor} \cup Range(Colors) :
                  Rejected(playCard(state, playerId, c, chosenColor))
            /\ \A rnd \in RandomOutcomes :
                  /\ Rejected(drawCards(state, playerId, rnd))
                  /\ Rejected(drawUntilMatch(state, playerId, rnd))
            /\ Rejected(skipTurn(state, playerId))

\* with jumpIn on, a player who is not to move holds a card identical in colour to
\* the current colour, and the play is still refused
C4_Witness ==
    /\ state.gameStatus = "playing"
    /\ state.settings.jumpIn
    /\ \E i \in Players, c \in CardIds :
          /\ ~state.players[i].isCurrentTurn
          /\ c \in Range(state.players[i].cards)
          /\ Card(c).color = state.currentColor
          /\ ~playCard(state, state.players[i].id, c, NoColor).ok

\* points of one card as the scoring rules give them: a number card its value, an
\* action card 20, a wild card 50
C5_CardPoints(c) ==
    IF Card(c).type = "number" THEN Card(c).value
    ELSE IF Card(c).type \in {"skip", "reverse", "draw2"} THEN 20
    ELSE 50

RECURSIVE C5_HandPoints(_)
C5_HandPoints(cards) ==
    IF cards = <<>> THEN 0 ELSE C5_CardPoints(Head(cards)) + C5_HandPoints(Tail(cards))

\* points left in the hands of everybody but the player at position w
RECURSIVE C5_OthersPoints(_, _, _)
C5_OthersPoints(players, w, i) ==
    IF i = 0 THEN 0
    ELSE (IF i = w THEN 0 ELSE C5_HandPoints(players[i].cards))
         + C5_OthersPoints(players, w, i - 1)

C5_WinningPlay ==
    (last'.op = "playCard" /\ state'.players[Actor].cards = <<>>) =>
        /\ state'.gameStatus = "finished"
        /\ state'.winner = last'.player
        /\ \A i \in Players :
              i # Actor =>
                 state'.players[i].roundScore = 0 - C5_HandPoints(state'.players[i].cards)
        /\ state'.players[Actor].score =
              state.players[Actor].score
                 + C5_OthersPoints(state'.players, Actor, Len(state.players))

\* C5: a successful playCard that empties the acting player's hand sets gameStatus
\* to finished and winner to that player, gives every other player the roundScore
\* minus the points left in their hand, and raises the winner's score in the
\* players list by exactly the sum of those points
C5_WinScores == [][C5_WinningPlay]_vars

\* a player has won against somebody who was left holding points
C5_Witness ==
    /\ state.gameStatus = "finished"
    /\ last.op = "playCard"
    /\ state.winner = last.player
    /\ \E i \in Players : state.players[i].roundScore < 0
    /\ \E i \in Players : state.players[i].id = state.winner /\ state.players[i].score > 0

C9_Play ==
    last'.op = "playCard" =>
        /\ state'.pendingCardsToDraw =
              state.pendingCardsToDraw
                 + (IF Card(last'.card).type = "draw2" THEN 2
                    ELSE IF Card(last'.card).type = "wild4" THEN 4
                    ELSE 0)
        /\ \A i \in Players :
              Len(state'.players[i].cards) <= Len(state.players[i].cards)

\* C9: a successful playCard of a draw2 adds 2 to pendingCardsToDraw, of a wild4 adds
\* 4, and of any other card leaves it as it was; no hand grows by a playCard
C9_PendingStacks == [][C9_Play]_vars

\* a wild4 has been played onto a pending draw2
C9_Witness ==
    /\ last.op = "playCard"
    /\ Card(last.card).type = "wild4"
    /\ state.pendingCardsToDraw = 6

\* 0-based seat of the nearest connected player after seat from, going round the
\* table in direction dir (the player at seat from comes last)
NextConnected(players, from, dir) ==
    LET n == Len(players)
        Seat(k) == (from + k * dir + n * n) % n
        k == CHOOSE d \in 1..n :
                /\ At(players, Seat(d)).isConnected
                /\ \A e \in 1..(d - 1) : ~At(players, Seat(e)).isConnected
    IN Seat(k)

SomeoneConnected(players) == \E i \in 1..Len(players) : players[i].isConnected

\* in the state after the step the turn is held by the player at 0-based seat, alone
TurnAt(seat) ==
    \A i \in Players : state'.players[i].isCurrentTurn <=> (i - 1 = seat)

C6_Play ==
    (/\ last'.op = "playCard"
     /\ state'.players[Actor].cards # <<>>
     /\ SomeoneConnected(state.players)) =>
        LET first == NextConnected(state.players, Actor - 1, state.direction)
            second == NextConnected(state.players, first, state.direction)
        IN /\ Card(last'.card).type \in {"number", "wild", "draw2", "wild4"} =>
                 TurnAt(first)
           /\ Card(last'.card).type = "skip" => TurnAt(second)

\* C6: after a successful playCard that does not end the game the turn passes to
\* the nearest connected player after the actor in the play direction when the
\* card is a number, wild, draw2 or wild4 card, and to the second connected player
\* after the actor when it is a skip
C6_TurnPasses == [][C6_Play]_vars

C7_Play ==
    (last'.op = "playCard" /\ Card(last'.card).type = "reverse") =>
        /\ state'.direction = 0 - state.direction
        /\ (Len(state.players) = 2 /\ state'.players[Actor].cards # <<>>) =>
               TurnAt(Actor - 1)

\* C7: a successful playCard of a reverse flips the direction and, among exactly two
\* players, acts as a skip: the player who played it holds the turn again
C7_ReverseSkipsInDuel == [][C7_Play]_vars

C8_Draw ==
    (last'.op = "drawCards" /\ state.gameStatus = "playing") =>
        /\ Len(state'.players[Actor].cards) =
              Len(state.players[Actor].cards)
                 + (IF state.pendingCardsToDraw > 1 THEN state.pendingCardsToDraw ELSE 1)
        /\ state'.pendingCardsToDraw = 0

\* C8: a successful drawCards in a playing state adds exactly
\* max(pendingCardsToDraw, 1) cards to the drawer's hand and sets pendingCardsToDraw
\* to 0, also when the draw pile holds fewer cards than that
C8_DrawsAll == [][C8_Draw]_vars

C10_Draw ==
    (last'.op = "drawCards" /\ SomeoneConnected(state.players)) =>
        IF state.settings.passAfterDraw
        THEN TurnAt(NextConnected(state.players, Actor - 1, state.direction))
        ELSE /\ TurnAt(Actor - 1)
             /\ state'.currentPlayerIndex = state.currentPlayerIndex

\* C10: a successful drawCards passes the turn to the next connected player in the
\* play direction when settings.passAfterDraw is on, and leaves the turn with the
\* drawer when it is off
C10_PassAfterDraw == [][C10_Draw]_vars

\* the step is an accepted call that draws cards
DrawStep == last'.op \in {"drawCards", "drawUntilMatch", "challengeWildFour"}

\* cards the hands hold after the step and did not hold before
Drawn ==
    UNION {Range(state'.players[i].cards) \ Range(state.players[i].cards) : i \in Players}

C11_Draw ==
    DrawStep =>
        /\ TopCard(state') = TopCard(state)
        /\ \/ state'.discardPile = state.discardPile
           \/ state'.discardPile = <<TopCard(state)>>
        /\ Range(state'.deck) \cup Drawn =
              Range(state.deck) \cup (Range(state.discardPile) \ Range(state'.discardPile))
        /\ last'.op = "drawCards" =>
              LET need == IF state.pendingCardsToDraw > 0
                          THEN state.pendingCardsToDraw ELSE 1
              IN IF Len(state.deck) < need
                 THEN state'.discardPile = <<TopCard(state)>>
                 ELSE state'.discardPile = state.discardPile

\* C11: whenever a draw finds the draw pile shorter than the number of cards to
\* draw, the discard pile becomes exactly its top card and the other discard cards,
\* and only those, go to the draw pile; the top discard card is the same before and
\* after every draw operation
C11_RefillKeepsTop == [][C11_Draw]_vars

\* a challenge has been accepted and its draw has refilled the draw pile: of the
\* discard pile, which held the wild4 on another card, the wild4 alone is left
C11_Witness ==
    /\ last.op = "challengeWildFour"
    /\ Len(state.discardPile) = 1
    /\ Card(TopCard(state)).type = "wild4"

\* the player at position i holds a card other than c whose colour is the active one
HoldsActiveColor(i, c) ==
    \E d \in Range(state.players[i].cards) : d # c /\ Card(d).color = state.currentColor

\* C12: with settings.noBluffing, playCard of a wild4 with a chosen colour by the
\* player whose turn it is succeeds when that player holds no other card of the
\* active colour, and fails when they hold one
C12_NoBluffing ==
    \A i \in Players, c \in CardIds, chosenColor \in Range(Colors) :
        (/\ state.settings.noBluffing
         /\ state.gameStatus = "playing"
         /\ state.players[i].isCurrentTurn
         /\ c \in Range(state.players[i].cards)
         /\ Card(c).type = "wild4") =>
            (playCard(state, state.players[i].id, c, chosenColor).ok
                <=> ~HoldsActiveColor(i, c))

\* C13: in every playing state in which at least one player is connected, the
\* player holding the turn is connected; removePlayer of the player to move during
\* play keeps that player in the list, marked disconnected, and hands the turn to a
\* connected player
C13_TurnHolderConnected ==
    (state.gameStatus = "playing" /\ SomeoneConnected(state.players)) =>
        \A i \in Players : state.players[i].isCurrentTurn => state.players[i].isConnected

\* the players of the state other than the one with id playerId, in seat order
Others(playerId) == SelectSeq(state.players, LAMBDA p : p.id # playerId)

C14_Remove ==
    (last'.op = "removePlayer" /\ state.gameStatus = "waiting") =>
        /\ Len(state'.players) = Len(state.players) - 1
        /\ \A i \in 1..Len(state'.players) :
              /\ state'.players[i].id = Others(last'.player)[i].id
              /\ state'.players[i].id # last'.player
        /\ (state.players[Actor].isHost /\ state'.players # <<>>) =>
              state'.players[1].isHost

C14_OneHost ==
    state.players # <<>> =>
        Cardinality({i \in Players : state.players[i].isHost}) = 1

\* C14: removePlayer in a waiting room deletes the player from the players list
\* and, when the host left, makes the first remaining player host; a room with at
\* least one player always has exactly one player with isHost
C14_HostHandover == [][C14_Remove]_vars /\ []C14_OneHost

\* the host who created the room has left it while it was waiting and the first of
\* the players who stayed is the host now
C14_Witness ==
    /\ state.gameStatus = "waiting"
    /\ last.op = "removePlayer"
    /\ last.player = 1
    /\ Len(state.players) = 2
    /\ state.players[1].isHost
    /\ ~state.players[2].isHost

C15_Start ==
    last'.op = "startGame" =>
        /\ state.players[Actor].isHost
        /\ Cardinality({i \in Players : state.players[i].isReady})
              >= state.settings.minPlayers

\* C15: startGame succeeds only when the initiator is the host and at least
\* settings.minPlayers players are in the room and ready; in particular a host who
\* is alone in the room, with minPlayers = 2, can never start the game
C15_EnoughReady == [][C15_Start]_vars

C16_Start ==
    last'.op = "startGame" =>
        /\ state'.gameStatus = "playing"
        /\ \A i \in 1..Len(state'.players) : Len(state'.players[i].cards) = DealSize
        /\ Len(state'.discardPile) = 1
        /\ Card(TopCard(state')).type \notin {"wild", "wild4"}
        /\ state'.currentColor = Card(TopCard(state')).color
        /\ state'.pendingCardsToDraw = 0
        /\ state'.direction = 1

\* C16: right after a successful startGame gameStatus is playing, every player
\* holds exactly the dealt number of cards (DealSize here, 7 in the source), the
\* discard pile is one card that is neither wild nor wild4, currentColor is that
\* card's colour, pendingCardsToDraw is 0 and direction is +1
C16_FreshRound == [][C16_Start]_vars

Growth(playerId) ==
    LET i == findIndex(state.players, playerId) + 1
    IN Len(state'.players[i].cards) - Len(state.players[i].cards)

C18_Challenge ==
    last'.op = "challengeWildFour" =>
        /\ Cardinality({i \in Players :
              Len(state'.players[i].cards) > Len(state.players[i].cards)}) = 1
        /\ IF state'.challengePending.isValid
           THEN Growth(last'.target) = 4
           ELSE Growth(last'.player) = 6
        /\ state'.pendingCardsToDraw = 0

\* C18: when challengeWildFour is accepted exactly one hand grows: the challenged
\* player draws 4 cards when the challenge succeeds, the challenger draws 6 when
\* it fails; pendingCardsToDraw is 0 afterwards in both cases
C18_ChallengePenalty == [][C18_Challenge]_vars

\* the player whose turn it was held, besides the card played in the step, a
\* card of the colour that was active before the step
C19_HeldActiveColor ==
    \E k \in 1..Len(state.players[Actor].cards) :
       LET c == state.players[Actor].cards[k]
       IN c # last'.card /\ Card(c).color = state.currentColor

C19_Play ==
    (last'.op = "playCard" /\ Card(last'.card).type = "wild4") =>
        \A challengerId \in CallerIds, rnd \in RandomOutcomes :
           LET result == challengeWildFour(state', challengerId, last'.player, rnd)
           IN result.ok =>
                 (result.state.challengePending.isValid <=> C19_HeldActiveColor)

\* C19: a challenge of a wild4 play succeeds exactly when the hand of the
\* challenged player at the time of that play held another card whose colour is
\* the colour that was active (currentColor) immediately before the play, also
\* when that colour had been chosen by an earlier wild
C19_ChallengeByActiveColor == [][C19_Play]_vars

C20_Allowed(challengerId, challengedId) ==
    /\ state.settings.allowChallenges
    /\ state.lastAction.type = "play"
    /\ state.lastAction.card # NoCard
    /\ Card(state.lastAction.card).type = "wild4"
    /\ \E i \in Players :
          i - 1 = state.currentPlayerIndex /\ state.players[i].id = challengerId
    /\ state.lastAction.player = challengedId

\* C20: challengeWildFour is accepted only when allowChallenges is set, the most
\* recent action is a wild4 play, the challenger is the player at
\* currentPlayerIndex and the challenged player made that play; in every other
\* case the call fails and the state is unchanged
C20_ChallengeGuarded ==
    \A challengerId \in 0..(MaxPlayers + 1), challengedId \in 0..(MaxPlayers + 1) :
       \A rnd \in RandomOutcomes :
          ~C20_Allowed(challengerId, challengedId) =>
              Rejected(challengeWildFour(state, challengerId, challengedId, rnd))

\* a wild4 has just been played and is open to challenge: the player whose turn
\* it is may challenge, another connected player of the room may not
C20_Witness ==
    /\ last.op = "playCard"
    /\ Card(last.card).type = "wild4"
    /\ state.gameStatus = "playing"
    /\ \E i \in Players, j \in Players :
          /\ i # j
          /\ state.players[j].id # last.player
          /\ state.players[j].isConnected
          /\ challengeWildFour(state, state.players[i].id, last.player, FirstOutcome).ok
          /\ Rejected(challengeWildFour(state, state.players[j].id, last.player,
                                        FirstOutcome))

\* C21: the unimplemented rule variants fail closed: with settings.sevenZero a
\* playCard of a 7 or a 0, legal or not, fails, and with settings.jumpIn a
\* playCard by a player who does not hold the turn fails; in both cases the whole
\* state (hands, piles, turn, pendingCardsToDraw) is as it was
C21_VariantsFailClosed ==
    \A playerId \in 0..(MaxPlayers + 1), c \in CardIds :
       \A chosenColor \in {NoColor} \cup Range(Colors) :
          (\/ /\ state.settings.sevenZero
              /\ Card(c).type = "number"
              /\ Card(c).value \in {0, 7}
           \/ /\ state.settings.jumpIn
              /\ C4_OutOfTurn(playerId)) =>
                 Rejected(playCard(state, playerId, c, chosenColor))

\* with sevenZero on, the player to move holds a 7 or a 0 of the current colour,
\* legal on the top card by the basic rules, and the play is refused
C21_Witness ==
    /\ state.gameStatus = "playing"
    /\ state.settings.sevenZero
    /\ \E i \in Players, c \in CardIds :
          /\ state.players[i].isCurrentTurn
          /\ c \in Range(state.players[i].cards)
          /\ Card(c).type = "number"
          /\ Card(c).value \in {0, 7}
          /\ Card(c).color = state.currentColor
          /\ canPlayOnTop(c, TopCard(state), state.currentColor, state.settings)
          /\ ~playCard(state, state.players[i].id, c, NoColor).ok

\* the card is playable on the top of the discard pile of the current state
C22_Playable(c) ==
    canPlayOnTop(c, TopCard(state), state.currentColor, state.settings)

C22_Refused ==
    \A playerId \in 0..(MaxPlayers + 1), rnd \in RandomOutcomes :
       (\/ ~state.settings.drawUntilMatch
        \/ C4_OutOfTurn(playerId)
        \/ \E i \in Players :
              /\ state.players[i].id = playerId
              /\ \E c \in Range(state.players[i].cards) : C22_Playable(c)) =>
             Rejected(drawUntilMatch(state, playerId, rnd))

C22_Draw ==
    last'.op = "drawUntilMatch" =>
        LET before == state.players[Actor].cards
            after == state'.players[Actor].cards
            added == Len(after) - Len(before)
        IN /\ added >= 1
           /\ added <= state.settings.drawCardLimit
           /\ Take(after, Len(before)) = before
           /\ \A i \in Players : i # Actor =>
                 state'.players[i].cards = state.players[i].cards
           /\ \A k \in 1..added :
                 k < added => ~C22_Playable(after[Len(before) + k])
           /\ added < state.settings.drawCardLimit =>
                 C22_Playable(after[Len(after)])

\* C22: drawUntilMatch fails with the state unchanged when the rule is disabled,
\* when the caller does not hold the turn or when the caller already holds a
\* playable card; when accepted it adds at least 1 and at most
\* settings.drawCardLimit cards, all to the caller's hand, and stops drawing as
\* soon as the card just drawn is playable
C22_DrawUntilMatch == []C22_Refused /\ [][C22_Draw]_vars

\* no call of an operation that searches for the next player runs forever
C23_Terminates ==
    \A playerId \in 0..(MaxPlayers + 1), rnd \in RandomOutcomes :
       /\ \A c \in CardIds, chosenColor \in {NoColor} \cup Range(Colors) :
             ~playCard(state, playerId, c, chosenColor).hang
       /\ ~drawCards(state, playerId, rnd).hang
       /\ ~drawUntilMatch(state, playerId, rnd).hang
       /\ ~skipTurn(state, playerId).hang
       /\ ~removePlayer(state, playerId).hang
       /\ \A challengedId \in 0..(MaxPlayers + 1) :
             ~challengeWildFour(state, playerId, challengedId, rnd).hang

\* C23: in every state reachable through the public operations the search for
\* the next player, as used by playCard, drawCards, drawUntilMatch, skipTurn,
\* challengeWildFour and removePlayer, terminates after examining at most
\* players.length candidates, and it returns the starting index when every other
\* player is disconnected
C23_SearchBounded ==
    /\ C23_Terminates
    /\ \A i \in Players :
          (\A j \in Players : j # i => ~state.players[j].isConnected) =>
              getNextPlayerIndex_from(state, i - 1) = i - 1

\* the snapshots that differ from the current one only in which cards, not how
\* many, lie in the hands of players other than the one at seat a and in the
\* draw pile: one card of such a hand exchanged with one of the draw pile or of
\* another such hand
C24_HiddenVariants(a) ==
    { [state EXCEPT !.players[b].cards[k] = state.deck[m],
                    !.deck[m] = state.players[b].cards[k]] :
         <<b, k, m>> \in { t \in Players \X (1..DeckSize) \X (1..DeckSize) :
                             /\ t[1] # a
                             /\ t[2] <= Len(state.players[t[1]].cards)
                             /\ t[3] <= Len(state.deck) } }
    \cup
    { [state EXCEPT !.players[t[1]].cards[t[3]] = state.players[t[2]].cards[t[4]],
                    !.players[t[2]].cards[t[4]] = state.players[t[1]].cards[t[3]]] :
         t \in { u \in Players \X Players \X (1..DeckSize) \X (1..DeckSize) :
                   /\ u[1] # a /\ u[2] # a /\ u[1] # u[2]
                   /\ u[3] <= Len(state.players[u[1]].cards)
                   /\ u[4] <= Len(state.players[u[2]].cards) } }

\* C24: a game-state payload sent to a recipient holds of every other player
\* only the number of cards and of the draw pile only the size: snapshots that
\* differ only in the contents of the other players' hands and of the draw pile
\* give the recipient the same payload
C24_PayloadRedacted ==
    last.op \in Broadcasting =>
        \A a \in Players :
           \A other \in C24_HiddenVariants(a) :
              gameStateUpdated(other) = gameStateUpdated(state)

C26_RoomView(entries, r) ==
    IF gamesHas(entries, r) THEN {gamesGet(entries, r)} ELSE {}

\* socket s is a player of the game stored for room r
C26_IsPlayer(s, r) ==
    /\ gamesHas(games, r)
    /\ \E i \in 1..Len(gamesGet(games, r).players) :
          gamesGet(games, r).players[i].id = s

C26_Step ==
    \A s \in Sockets, r \in Rooms :
       (\/ /\ frames[s].pc = "got"
           /\ frames'[s].pc = "idle"
           /\ frames[s].roomCode # r
        \/ /\ frames[s].pc = "closing"
           /\ frames'[s] # frames[s]
           /\ ~C26_IsPlayer(s, r)) =>
             /\ C26_RoomView(games', r) = C26_RoomView(games, r)
             /\ \A e \in emitted' : e.roomCode # r

\* C26: a joinGame, playCard or drawCard addressed to a room, and the disconnect
\* of a connection that is not a player of room R', leave the stored snapshot of
\* every other room R' as it was and send no gameStateUpdated to it
C26_RoomsIsolated == [][C26_Step]_vars

\* two rooms with players exist, a socket has left, and the last step of its
\* disconnect handler sent the new state to the one room the socket was in
C26_Witness ==
    /\ Len(games) = 2
    /\ \E s \in Sockets, e \in emitted :
          /\ frames[s].pc = "closed"
          /\ \A k \in 1..Len(games) :
                /\ Len(games[k].game.players) >= 1
                /\ \A i \in 1..Len(games[k].game.players) :
                      games[k].game.players[i].id # s
          /\ \E k \in 1..Len(games) : games[k].roomCode # e.roomCode

C27_Call == heldAfter(state, last', state') = state

\* C27: every successful operation leaves the GameState held by the GameService
\* instance it was called on as it was (hands, draw pile, discard pile, turn,
\* counters) and delivers its result only through the returned instance
C27_ReceiverUnchanged == [][C27_Call]_vars

\* the sweep is to close the room at time t
C28_Due(room, t) ==
    \/ t - room.createdAt > ROOM_EXPIRY_TIME
    \/ t - room.lastActivity > RoomIdleLimit /\ ~room.gameState.isGameStarted

\* a sweep removes only rooms it is to close, and leaves the others as they were
C28_Step ==
    (event'.op = "cleanupInactiveRooms" /\ now' = now) =>
        /\ \A k \in 1..Len(lobby.games) :
              gamesHas(lobby'.games, lobby.games[k].roomCode)
                  <=> ~C28_Due(lobby.games[k].game, now)
        /\ \A k \in 1..Len(lobby'.games) :
              /\ gamesHas(lobby.games, lobby'.games[k].roomCode)
              /\ gamesGet(lobby.games, lobby'.games[k].roomCode) = lobby'.games[k].game

\* right after a sweep no room is left that it was to close
C28_Swept ==
    (event.op = "cleanupInactiveRooms" /\ event.at = now) =>
        \A k \in 1..Len(lobby.games) : ~C28_Due(lobby.games[k].game, now)

\* C28: the periodic sweep of SocketServer removes a room if and only if the
\* room is past its expiry (ROOM_EXPIRY_TIME after its creation) or has been
\* idle for more than RoomIdleLimit while its game is not started; a room whose
\* game is started and which is not expired stays, however long it is idle
C28_SweepRemovesDueRooms == []C28_Swept /\ [][C28_Step]_vars

\* a sweep has closed a room for being idle and has left a room whose game is
\* started and which has been idle for longer than the limit
C28_Witness ==
    /\ event.op = "cleanupInactiveRooms"
    /\ \E c \in event.closed : c.reason = "inactive"
    /\ \E k \in 1..Len(lobby.games) :
          /\ lobby.games[k].game.gameState.isGameStarted
          /\ now - lobby.games[k].game.lastActivity > RoomIdleLimit

\* the numbers of the listeners of a type in the order of their registration
C29_Listeners(type) ==
    [k \in 1..Len(emitter.listeners[type]) |-> emitter.listeners[type][k].id]

C29_Emit ==
    Len(emitter'.events) > Len(emitter.events) =>
        /\ ~emitter'.threw
        /\ emitter'.invoked = C29_Listeners(emitter'.events[Len(emitter'.events)])
        /\ emitter'.completed = emitter.completed + 1

\* C29: a listener that throws during GameEventEmitter.emit does not make emit
\* throw: every listener of the event's type is called, in the order of
\* registration, and the operation that emitted the event returns its new state
C29_ListenersIsolated == [][C29_Emit]_vars

\* how often x occurs in a sequence
C30_Count(s, x) == Cardinality({k \in 1..Len(s) : s[k] = x})

C30_SameElements(a, b) ==
    /\ Len(a) = Len(b)
    /\ \A x \in Range(a) \cup Range(b) : C30_Count(a, x) = C30_Count(b, x)

\* when the loop is over, the array returned has the elements of the argument,
\* each as often; so has the result of the loop run with one outcome throughout
C30_Returned ==
    /\ shuffling.i <= 0 => C30_SameElements(shuffling.newArray, shuffling.array)
    /\ \A rnd \in RandomOutcomes :
          C30_SameElements(shuffleArray(shuffling.array, rnd), shuffling.array)

C30_ArgumentKept == shuffling'.array = shuffling.array

\* C30: shuffleArray returns a permutation of its argument: for every argument
\* and every outcome of the random choices the result has the same elements as
\* the argument, each as often, and the argument itself is not modified
C30_ShuffleIsPermutation == []C30_Returned /\ [][C30_ArgumentKept]_vars

\* a shuffle of an array with a repeated element has ended in another order
C30_Witness ==
    /\ shuffling.i = 0
    /\ Len(shuffling.array) = MaxShuffleLen
    /\ Cardinality(Range(shuffling.array)) < Len(shuffling.array)
    /\ shuffling.newArray # shuffling.array

\* C31: once the game is playing or finished, the discard pile is not empty and
\* its last card is lastPlayedCard; when that card is neither a wild nor a
\* wild-draw-four, currentColor is its colour
C31_TopCardIsLastPlayed ==
    state.gameStatus \in {"playing", "finished"} =>
        /\ state.discardPile # <<>>
        /\ TopCard(state) = state.lastPlayedCard
        /\ ~isWildCard(state.lastPlayedCard) =>
              state.currentColor = Card(state.lastPlayedCard).color

\* a draw has refilled the draw pile from a discard pile on which a card other
\* than a wild had been played
C31_Witness ==
    /\ state.gameStatus = "playing"
    /\ last.op = "drawCards"
    /\ Len(state.discardPile) = 1
    /\ state.lastAction.type = "draw"
    /\ ~isWildCard(state.lastPlayedCard)
    /\ Card(state.lastPlayedCard).type = "draw2"

\* a wild or wild-draw-four sent without a colour is refused, whoever sends it
C32_Refused ==
    \A playerId \in CallerIds :
       \A cardId \in {c \in CardIds : isWildCard(c)} :
          Rejected(playCard(state, playerId, cardId, NoColor))

\* an accepted play sets the colour: the one chosen for a wild or wild-draw-four,
\* the card's own for any other card
C32_Played ==
    last'.op = "playCard" =>
        state'.currentColor =
            IF isWildCard(last'.card) THEN last'.color ELSE Card(last'.card).color

\* C32: playCard of a wild or wild-draw-four without chosenColor throws and
\* leaves the state as it was; after an accepted play of a wild or
\* wild-draw-four currentColor is the chosenColor sent, after an accepted play of
\* any other card it is that card's colour
C32_ColorFollowsPlay == []C32_Refused /\ [][C32_Played]_vars

\* a wild has been played with a colour other than the one that was current, by
\* a player who would have been refused without a colour
C32_Witness ==
    /\ last.op = "playCard"
    /\ isWildCard(last.card)
    /\ last.color = "blue"
    /\ state.currentColor = "blue"
    /\ Len(state.discardPile) >= 2
    /\ Card(state.discardPile[Len(state.discardPile) - 1]).color = "red"

\* the action an accepted call records
C33_Action(call) ==
    [type |-> CASE call.op = "playCard" -> "play"
                [] call.op = "drawCards" -> "draw"
                [] call.op = "skipTurn" -> "skip",
     player |-> call.player,
     card |-> call.card]

C33_Bounded == Len(state.actionHistory) <= ActionHistoryLimit

\* the action of the call comes first and is lastAction; behind it the entries
\* that were there before, in their order
C33_Recorded ==
    last'.op \in {"playCard", "drawCards", "skipTurn"} =>
        /\ state'.actionHistory # <<>>
        /\ Head(state'.actionHistory) = C33_Action(last')
        /\ Head(state'.actionHistory) = state'.lastAction
        /\ Tail(state'.actionHistory)
              = Take(state.actionHistory, Len(state'.actionHistory) - 1)

\* C33: actionHistory never holds more than ActionHistoryLimit entries (20 in
\* the source), is ordered newest first, and after every accepted playCard,
\* drawCards or skipTurn its first entry is the action of that call and equals
\* lastAction
C33_HistoryBoundedNewestFirst == []C33_Bounded /\ [][C33_Recorded]_vars

\* a full history has taken one more action and dropped its oldest
C33_Witness ==
    /\ Len(state.actionHistory) = ActionHistoryLimit
    /\ steps > ActionHistoryLimit
    /\ last.op = "skipTurn"
    /\ state.actionHistory[ActionHistoryLimit].type = "play"
    /\ state.lastAction = state.actionHistory[1]

\* C34: once the game is finished, every playCard, drawCards, drawUntilMatch,
\* skipTurn and challengeWildFour call, by the winner or by anyone else, throws
\* and leaves hands, piles, scores and turn as they were
C34_FinishedIsFinal ==
    state.gameStatus = "finished" =>
        \A playerId \in CallerIds :
           /\ \A cardId \in CardInputs(playerId) :
                 \A chosenColor \in ColorInputs(cardId) :
                    Rejected(playCard(state, playerId, cardId, chosenColor))
           /\ \A rnd \in RandomOutcomes :
                 /\ Rejected(drawCards(state, playerId, rnd))
                 /\ Rejected(drawUntilMatch(state, playerId, rnd))
                 /\ \A challengedId \in CallerIds :
                       Rejected(challengeWildFour(state, playerId, challengedId, rnd))
           /\ Rejected(skipTurn(state, playerId))

\* C35: startGame is accepted only while the game is waiting: called by the
\* host on a game that is playing or finished it throws and leaves hands, piles,
\* turn and scores as they were
C35_StartOnlyWhileWaiting ==
    state.gameStatus \in {"playing", "finished"} =>
        \A playerId \in CallerIds :
           \A rnd \in RandomOutcomes, rndFirst \in RandomOutcomes :
              Rejected(startGame(state, playerId, rnd, rndFirst))

\* the turn after an accepted drawUntilMatch: with the next connected player
\* after the caller, or with the caller
C36_Passed ==
    last'.op = "drawUntilMatch" =>
        LET turn == IF state.settings.passAfterDraw
                    THEN getNextPlayerIndex(state)
                    ELSE state.currentPlayerIndex
        IN /\ state'.currentPlayerIndex = turn
           /\ \A i \in 1..Len(state'.players) :
                 state'.players[i].isCurrentTurn <=> (i - 1 = turn)

\* C36: an accepted drawUntilMatch with settings.passAfterDraw moves the turn
\* once, to the next connected player after the caller in the direction of
\* play, however many cards were drawn; without passAfterDraw the caller keeps
\* the turn
C36_DrawUntilMatchPassesOnce == [][C36_Passed]_vars

\* C37: while pendingCardsToDraw is above 0 the player whose turn it is cannot
\* pass the penalty on without drawing it or stacking on it: playCard of a card
\* that is neither a draw-two nor a wild-draw-four is refused, and so is skipTurn
C37_PenaltyCannotBePassed ==
    (state.gameStatus = "playing" /\ state.pendingCardsToDraw > 0) =>
        \A playerId \in CallerIds :
           /\ Rejected(skipTurn(state, playerId))
           /\ \A cardId \in {c \in CardInputs(playerId) : ~isDrawCard(c)} :
                 \A chosenColor \in ColorInputs(cardId) :
                    Rejected(playCard(state, playerId, cardId, chosenColor))

\* a step of the createGame handler (the only one that writes games while no
\* handler frame moves) leaves every room that was there as it was
C38_Created ==
    frames' = frames =>
        \A r \in Rooms :
           gamesHas(games, r) =>
              /\ gamesHas(games', r)
              /\ gamesGet(games', r) = gamesGet(games, r)

\* C38: a createGame message whose room code is already mapped to a live room
\* does not replace or alter the game state stored for that room
C38_CreateKeepsLiveRoom == [][C38_Created]_vars

\* the states a playCard call with any chosenColor of the type CardColor leads to
C39_AfterPlay ==
    {result.state :
        result \in {r \in {playCard(state, playerId, cardId, chosenColor) :
                              playerId \in CallerIds, cardId \in CardIds,
                              chosenColor \in CardColor} : r.ok}}

\* C39: in every reachable state that is playing, currentColor is one of the
\* colours of the coloured cards (red, blue, green, yellow in the source),
\* whatever chosenColor a client sends with a wild or wild-draw-four
C39_CurrentColorIsAColour ==
    state.gameStatus = "playing" =>
        /\ state.currentColor \in Range(Colors)
        /\ \A st \in C39_AfterPlay :
              st.gameStatus = "playing" => st.currentColor \in Range(Colors)

\* the challenged player was found to have held a matching card and has drawn
C40_Upheld ==
    (last'.op = "challengeWildFour" /\ state'.challengePending.isValid) =>
        /\ state'.currentPlayerIndex = state.currentPlayerIndex
        /\ \A i \in 1..Len(state.players) :
              state'.players[i].isCurrentTurn = state.players[i].isCurrentTurn

\* C40: when a challenge of a wild-draw-four succeeds, so that the challenged
\* player draws, the turn stays with the challenger: currentPlayerIndex and
\* every isCurrentTurn flag are after challengeWildFour what they were before,
\* whatever settings.passAfterDraw is
C40_ChallengerKeepsTurn == [][C40_Upheld]_vars

====
